---- MODULE Spec2Model ----
(***************************************************************************)
(* Model of the migration scripts transform_e2e.py (pass 1) and            *)
(* transform_e2e_pass2.py (pass 2), and of tests-pptx/thumbnails.py.        *)
(*                                                                         *)
(* Text representation.  A Python str is modelled as a sequence of         *)
(* lexemes: every whitespace character (" ", "\n", ...) is a lexeme of its  *)
(* own, every "{", "(" and "," is a lexeme of its own, and every maximal   *)
(* run of other characters is one lexeme ("rangeConfigs", "'sort_range'"). *)
(* str.count / str.replace / str.find and the regular expressions of pass  *)
(* 2 are computed on lexeme sequences exactly as Python computes them on   *)
(* characters (leftmost, non-overlapping); positions are lexeme offsets.   *)
(* Occurrences of a pattern that start or end inside a lexeme are outside  *)
(* the model.                                                              *)
(*                                                                         *)
(* Line ends.  The variable file holds the file as it is stored, with      *)
(* "\n", "\r\n" or "\r" line ends.  The scripts open it in text mode:       *)
(* read_text is the translation of a read (every line end becomes "\n"),   *)
(* write_text the translation of a write ("\n" becomes os.linesep, the     *)
(* variable linesep).                                                      *)
(***************************************************************************)
EXTENDS Integers, Sequences, FiniteSets, TLC

VARIABLES
    file,       \* content of test-taskpane.ts on disk
    content,    \* the scripts' variable content
    cnt,        \* the scripts' variable cnt (-1: not assigned yet)
    out,        \* lines printed to stdout so far, as <<tag, number>>
    script,     \* "none", "pass1" or "pass2": the script that runs / ran last
    pc,         \* position in the running script
    status,     \* "idle", "running", "done", "aborted"
    runs,       \* number of script runs started
    writes,     \* the scripts that have written file, oldest first
    prevIn,     \* what the run that wrote file last had read
    linesep,    \* os.linesep of the platform the scripts run on
    t_pc,       \* thumbnails.py: position in main()
    t_exists,   \* thumbnails.py: does the input path exist
    t_output,   \* thumbnails.py: is args.output given (-o)
    t_has_name, \* thumbnails.py: is pptx.name non-empty (it is empty for ".", "/")
    t_n,        \* thumbnails.py: prs.Slides.Count of the input
    t_cols,     \* thumbnails.py: args.cols
    t_i,        \* thumbnails.py: loop variable of render_slides
    t_slides,   \* thumbnails.py: the list slides
    t_tmp,      \* thumbnails.py: "none", "exists", "removed"
    t_grid,     \* thumbnails.py: the image make_grid created
    t_saved,    \* thumbnails.py: has the output image been written
    t_stderr,   \* thumbnails.py: lines printed to sys.stderr
    t_stdout,   \* thumbnails.py: lines printed to stdout
    t_exit      \* thumbnails.py: exit status (-1 while running)

e2e_vars == <<file, content, cnt, out, script, pc, status, runs, writes, prevIn,
              linesep>>
thumb_vars == <<t_pc, t_exists, t_output, t_has_name, t_n, t_cols, t_i, t_slides, t_tmp, t_grid,
                t_saved, t_stderr, t_stdout, t_exit>>
vars == <<file, content, cnt, out, script, pc, status, runs, writes, prevIn, linesep,
          t_pc, t_exists, t_output, t_has_name, t_n, t_cols, t_i, t_slides, t_tmp, t_grid,
          t_saved, t_stderr, t_stdout, t_exit>>

(***************************************************************************)
(* Bounds of the model.                                                    *)
(***************************************************************************)
MaxSnips == 2
MaxRuns == 2
MaxSlides == 7
MaxCols == 4

(***************************************************************************)
(* Lexeme helpers.                                                         *)
(***************************************************************************)
NL == <<"\n">>

\* the characters \s of a Python str pattern matches (those with str.isspace()).
\* A whitespace character that has no escape in a TLA+ string is written
\* "(U+hhhh)": no lexeme of a text has this form, a "(" being a lexeme of its own
WS == {" ", "\n", "\t", "\r", "\f",
       "(U+000B)", "(U+001C)", "(U+001D)", "(U+001E)", "(U+001F)", "(U+0085)",
       "(U+00A0)", "(U+1680)", "(U+2000)", "(U+2001)", "(U+2002)", "(U+2003)",
       "(U+2004)", "(U+2005)", "(U+2006)", "(U+2007)", "(U+2008)", "(U+2009)",
       "(U+200A)", "(U+2028)", "(U+2029)", "(U+202F)", "(U+205F)", "(U+3000)"}

\* the items ws of one line: a space before every item but the first, none before ","
RECURSIVE join_items(_, _)
join_items(ws, j) ==
    IF j > Len(ws) THEN <<>>
    ELSE (IF j > 1 /\ ws[j] # "," THEN <<" ", ws[j]>> ELSE <<ws[j]>>)
            \o join_items(ws, j + 1)

\* a line indented by k spaces
Ln(k, ws) == [i \in 1..k |-> " "] \o join_items(ws, 1)

Quote(s) == "'" \o s \o "'"

(***************************************************************************)
(* str.count, str.replace, str.find on lexeme sequences.                   *)
(***************************************************************************)
StartsAt(text, pat, i) ==
    /\ i + Len(pat) - 1 <= Len(text)
    /\ \A j \in 1..Len(pat) : text[i + j - 1] = pat[j]

\* the first lexeme of pat that is not whitespace (the first lexeme if all are)
anchor(pat) ==
    LET solid == {j \in 1..Len(pat) : pat[j] \notin WS}
    IN  IF solid = {} THEN 1 ELSE CHOOSE j \in solid : \A k \in solid : j <= k

\* every position where pat occurs in text; the anchor lexeme is compared first
occurrences_at(text, pat, a) ==
    {i \in 1..(Len(text) - Len(pat) + 1) :
        text[i + a - 1] = pat[a] /\ StartsAt(text, pat, i)}

occurrences(text, pat) == occurrences_at(text, pat, anchor(pat))

\* the first occurrence at or after position i, 0 when there is none
next_occurrence(occ, i) ==
    LET later == {m \in occ : m >= i}
    IN  IF later = {} THEN 0 ELSE CHOOSE m \in later : \A k \in later : m <= k

\* the occurrences taken from left to right, none overlapping the one before
RECURSIVE count_from(_, _, _)
count_from(occ, n, i) ==
    LET m == next_occurrence(occ, i)
    IN  IF m = 0 THEN 0 ELSE 1 + count_from(occ, n, m + n)

\* the same occurrences, each replaced by new
RECURSIVE replace_from(_, _, _, _, _)
replace_from(text, occ, n, new, i) ==
    LET m == next_occurrence(occ, i)
    IN  IF m = 0 THEN SubSeq(text, i, Len(text))
        ELSE SubSeq(text, i, m - 1) \o new \o replace_from(text, occ, n, new, m + n)

\* str.count(pat)
str_count(text, pat) == count_from(occurrences(text, pat), Len(pat), 1)

\* str.replace(pat, new)
str_replace(text, pat, new) ==
    replace_from(text, occurrences(text, pat), Len(pat), new, 1)

\* a replace that stops after the first occurrence, under a count of all of them
count_and_replace_at_first_only(text, occ, pat, new) ==
    [text |-> IF occ = {} THEN text
              ELSE LET m == next_occurrence(occ, 1)
                   IN  SubSeq(text, 1, m - 1) \o new \o SubSeq(text, m + Len(pat), Len(text)),
     cnt |-> count_from(occ, Len(pat), 1)]

\* cnt = text.count(pat) followed by text.replace(pat, new): both scan the same
\* text for the same occurrences occ
count_and_replace_at(text, occ, pat, new) ==
    [text |-> replace_from(text, occ, Len(pat), new, 1),
     cnt |-> count_from(occ, Len(pat), 1)]

count_and_replace(text, pat, new) ==
    count_and_replace_at(text, occurrences(text, pat), pat, new)

\* 0-based offset of the first occurrence, -1 when there is none
str_find(text, pat) == next_occurrence(occurrences(text, pat), 1) - 1

\* content.count(chr(10))
line_count(text) == Cardinality({i \in 1..Len(text) : text[i] = "\n"})

\* f.read() of a file opened in text mode (newline=None): universal newlines,
\* "\r\n" and a "\r" on its own are both read as "\n"
read_text(raw) ==
    SelectSeq([i \in 1..Len(raw) |->
                  IF raw[i] # "\r" THEN raw[i]
                  ELSE IF i < Len(raw) /\ raw[i + 1] = "\n" THEN "" ELSE "\n"],
              LAMBDA x : x # "")

\* f.write(text) of a file opened in text mode: every "\n" is written as sep,
\* the line separator of the platform
RECURSIVE write_text(_, _)
write_text(text, sep) ==
    IF Len(text) = 0 THEN <<>>
    ELSE IF Len(text) = 1 THEN (IF text[1] = "\n" THEN sep ELSE text)
    ELSE write_text(SubSeq(text, 1, Len(text) \div 2), sep)
            \o write_text(SubSeq(text, Len(text) \div 2 + 1, Len(text)), sep)

\* os.linesep is NL ("\n") on POSIX and CRLF ("\r\n") on Windows
CRLF == <<"\r", "\n">>

\* text[a:b] for 0 <= a, with b = len(text) when sliced to the end
Slice(text, a, b) == SubSeq(text, a + 1, b)

(***************************************************************************)
(* transform_e2e.py, STEP 1 & 2.                                           *)
(***************************************************************************)
legacy_marker ==
    Ln(0, <<"/**", "Flat", "registry", "keyed", "by", "config", "name", "for", "the", "legacy", "mapping", "table.", "*/">>)

calltool_end_marker ==
    NL \o Ln(0, <<"}">>) \o NL \o NL \o Ln(0, <<"/**">>) \o NL \o Ln(1, <<"*", "Run", "a", "tool", "test:">>)

legacy_start(text) == str_find(text, legacy_marker)
old_calltool_end(text) == str_find(text, calltool_end_marker)

\* transform_e2e.py 20-30.  The backquote of the template literal is written "~":
\* SANY cannot read a backquote inside a string.  No pattern of either script
\* contains one.
new_calltool ==
    <<"async", " ", "function", " ", "callTool", "(", "configs:", " ", "readonly", " ", "ToolConfig[]", ",", " ", "name:", " ", "string", ",", " ", "args:", " ", "Record<string", ",", " ", "unknown>", " ", "=", " ", "{", "}):", " ", "Promise<unknown>", " ", "{">> \o NL
    \o <<" ", " ", "const", " ", "config", " ", "=", " ", "configs.find", "(", "c", " ", "=>", " ", "c.name", " ", "===", " ", "name);">> \o NL
    \o <<" ", " ", "if", " ", "(", "!config)", " ", "throw", " ", "new", " ", "Error", "(", "~Tool", " ", "config", " ", "not", " ", "found:", " ", "$", "{", "name}~);">> \o NL
    \o Ln(2, <<"let", "result:", "unknown;">>) \o NL
    \o <<" ", " ", "await", " ", "Excel.run", "(", "async", " ", "context", " ", "=>", " ", "{">> \o NL
    \o <<" ", " ", " ", " ", "result", " ", "=", " ", "await", " ", "config.execute", "(", "context", ",", " ", "args);">> \o NL
    \o Ln(2, <<"});">>) \o NL
    \o Ln(2, <<"return", "result;">>) \o NL
    \o Ln(0, <<"}">>)

\* a splice that starts after the legacy marker and so keeps it in the file
step12_splice_keeps_marker(text) ==
    Slice(text, 0, legacy_start(text) + Len(legacy_marker)) \o NL \o new_calltool
        \o Slice(text, old_calltool_end(text) + 2, Len(text))

\* a splice that keeps the closing brace of the old callTool
step12_splice_keeps_brace(text) ==
    Slice(text, 0, legacy_start(text)) \o new_calltool
        \o Slice(text, old_calltool_end(text), Len(text))

\* content[:legacy_start] + new_calltool + content[old_calltool_end + 2:]
step12_splice(text) ==
    Slice(text, 0, legacy_start(text)) \o new_calltool
        \o Slice(text, old_calltool_end(text) + 2, Len(text))

(***************************************************************************)
(* transform_e2e.py, the helper of STEP 3.                                 *)
(***************************************************************************)
tool_call_old_p(old_configs, old_name) ==
    Ln(0, <<old_configs, ",", Quote(old_name), ",", "{">>)

\* a replacement that puts the action on a line of its own
tool_call_new_p_own_line(new_configs, new_name, new_action) ==
    Ln(0, <<new_configs, ",", Quote(new_name), ",", "{">>) \o NL
        \o Ln(6, <<"action:", Quote(new_action), ",">>)

tool_call_new_p(new_configs, new_name, new_action) ==
    Ln(0, <<new_configs, ",", Quote(new_name), ",", "{", "action:", Quote(new_action), ",">>)

\* a rename that writes the old tool name back
replace_tool_call_keeps_name(text, old_configs, old_name, new_configs, new_name, new_action) ==
    LET old_p == tool_call_old_p(old_configs, old_name)
        new_p == tool_call_new_p(old_configs, old_name, new_action)
    IN  count_and_replace(text, old_p, new_p)

replace_tool_call(text, old_configs, old_name, new_configs, new_name, new_action) ==
    LET old_p == tool_call_old_p(old_configs, old_name)
        new_p == tool_call_new_p(new_configs, new_name, new_action)
    IN  count_and_replace(text, old_p, new_p)

(***************************************************************************)
(* transform_e2e.py, the rename tables of STEP 3a-3i.                      *)
(***************************************************************************)
\* transform_e2e.py 47-71
range_tool_map == <<
    <<"get_range_values", "get_values">>,
    <<"set_range_values", "set_values">>,
    <<"get_used_range", "get_used">>,
    <<"clear_range", "clear">>,
    <<"sort_range", "sort">>,
    <<"find_values", "find">>,
    <<"replace_values", "replace">>,
    <<"insert_range", "insert">>,
    <<"delete_range", "delete">>,
    <<"merge_cells", "merge">>,
    <<"unmerge_cells", "unmerge">>,
    <<"group_rows_columns", "group">>,
    <<"ungroup_rows_columns", "ungroup">>,
    <<"remove_duplicates", "remove_duplicates">>,
    <<"flash_fill_range", "flash_fill">>,
    <<"get_special_cells", "get_special_cells">>,
    <<"get_range_precedents", "get_precedents">>,
    <<"get_range_dependents", "get_dependents">>,
    <<"recalculate_range", "recalculate">>,
    <<"get_tables_for_range", "get_tables">>,
    <<"set_range_formulas", "set_formulas">>,
    <<"get_range_formulas", "get_formulas">>,
    <<"auto_fill_range", "fill">> >>

\* transform_e2e.py 78-84
range_format_map == <<
    <<"format_range", "format">>,
    <<"set_number_format", "set_number_format">>,
    <<"set_cell_borders", "set_borders">>,
    <<"set_hyperlink", "set_hyperlink">>,
    <<"toggle_row_column_visibility", "toggle_visibility">> >>

\* transform_e2e.py 101-117
table_map == <<
    <<"list_tables", "list">>,
    <<"create_table", "create">>,
    <<"delete_table", "delete">>,
    <<"get_table_data", "get_data">>,
    <<"add_table_rows", "add_rows">>,
    <<"sort_table", "sort">>,
    <<"filter_table", "filter">>,
    <<"clear_table_filters", "clear_filters">>,
    <<"reapply_table_filters", "reapply_filters">>,
    <<"add_table_column", "add_column">>,
    <<"delete_table_column", "delete_column">>,
    <<"convert_table_to_range", "convert_to_range">>,
    <<"resize_table", "resize">>,
    <<"set_table_style", "configure">>,
    <<"set_table_header_totals_visibility", "configure">> >>

\* transform_e2e.py 123-136
chart_map == <<
    <<"list_charts", "list">>,
    <<"create_chart", "create">>,
    <<"delete_chart", "delete">>,
    <<"set_chart_title", "configure">>,
    <<"set_chart_type", "configure">>,
    <<"set_chart_data_source", "configure">>,
    <<"set_chart_position", "configure">>,
    <<"set_chart_legend_visibility", "configure">>,
    <<"set_chart_axis_title", "configure">>,
    <<"set_chart_axis_visibility", "configure">>,
    <<"set_chart_series_filtered", "configure">> >>

\* transform_e2e.py 142-158
sheet_map == <<
    <<"list_sheets", "list">>,
    <<"create_sheet", "create">>,
    <<"delete_sheet", "delete">>,
    <<"rename_sheet", "rename">>,
    <<"copy_sheet", "copy">>,
    <<"move_sheet", "move">>,
    <<"activate_sheet", "activate">>,
    <<"protect_sheet", "protect">>,
    <<"unprotect_sheet", "unprotect">>,
    <<"freeze_panes", "freeze">>,
    <<"set_sheet_visibility", "set_visibility">>,
    <<"set_sheet_gridlines", "set_gridlines">>,
    <<"set_sheet_headings", "set_headings">>,
    <<"set_page_layout", "set_page_layout">>,
    <<"recalculate_sheet", "recalculate">> >>

\* transform_e2e.py 164-180
workbook_map == <<
    <<"get_workbook_info", "get_info">>,
    <<"get_selected_range", "get_selected_range">>,
    <<"get_workbook_properties", "get_properties">>,
    <<"set_workbook_properties", "set_properties">>,
    <<"protect_workbook", "protect">>,
    <<"unprotect_workbook", "unprotect">>,
    <<"save_workbook", "save">>,
    <<"recalculate_workbook", "recalculate">>,
    <<"refresh_data_connections", "refresh_connections">>,
    <<"define_named_range", "define_named_range">>,
    <<"list_named_ranges", "list_named_ranges">>,
    <<"list_queries", "list_queries">>,
    <<"get_query", "get_query">>,
    <<"get_workbook_protection", "get_info">>,
    <<"get_query_count", "list_queries">> >>

\* transform_e2e.py 186-191
comment_map == <<
    <<"list_comments", "list">>,
    <<"add_comment", "add">>,
    <<"edit_comment", "edit">>,
    <<"delete_comment", "delete">> >>

\* transform_e2e.py 197-200
cf_map == <<
    <<"list_conditional_formats", "list">>,
    <<"clear_conditional_formats", "clear">> >>

\* transform_e2e.py 206-213
cf_add_map == <<
    <<"add_color_scale", "colorScale">>,
    <<"add_data_bar", "dataBar">>,
    <<"add_cell_value_format", "cellValue">>,
    <<"add_top_bottom_format", "topBottom">>,
    <<"add_contains_text_format", "containsText">>,
    <<"add_custom_format", "custom">> >>

\* transform_e2e.py 221-224
dv_map == <<
    <<"get_data_validation", "get">>,
    <<"clear_data_validation", "clear">> >>

\* transform_e2e.py 257-276
pivot_map == <<
    <<"list_pivot_tables", "list">>,
    <<"create_pivot_table", "create">>,
    <<"delete_pivot_table", "delete">>,
    <<"refresh_pivot_table", "refresh">>,
    <<"add_pivot_field", "add_field">>,
    <<"remove_pivot_field", "remove_field">>,
    <<"set_pivot_layout", "configure">>,
    <<"set_pivot_table_options", "configure">>,
    <<"apply_pivot_manual_filter", "filter">>,
    <<"sort_pivot_field_labels", "sort">>,
    <<"sort_pivot_field_values", "sort">>,
    <<"get_pivot_table_count", "list">>,
    <<"pivot_table_exists", "list">>,
    <<"get_pivot_table_location", "get_info">>,
    <<"refresh_all_pivot_tables", "refresh">>,
    <<"get_pivot_table_source_info", "get_info">>,
    <<"get_pivot_hierarchy_counts", "get_info">>,
    <<"get_pivot_hierarchies", "get_info">> >>

\* transform_e2e.py 294-303
pivot_dropped == <<
    "get_pivot_field_filters",
    "set_pivot_field_show_all_items",
    "get_pivot_layout_ranges",
    "set_pivot_layout_display_options",
    "get_pivot_data_hierarchy_for_cell",
    "get_pivot_items_for_cell",
    "set_pivot_layout_auto_sort_on_cell",
    "get_pivot_field_items" >>

(***************************************************************************)
(* Statements of the two scripts after the text has been read.  A          *)
(* statement is one rewrite rule together with the print that follows it:  *)
(*   "tool"  content, cnt = replace_tool_call(content, ...)                *)
(*   "lit"   cnt = content.count(old); content = content.replace(old, new) *)
(*   "sub"   content = content.replace(old, new)         (no count)        *)
(*   "cnt"   cnt = content.count(old)                    (no replace)      *)
(*   "multi" content, cnt = replace_multiline_tool(content, ...)           *)
(*   "regex" content, cnt = pattern.subn(repl, content)                    *)
(*   "find_warn", "find_idx", "find_ctx"   content.find(old) and a print   *)
(* pr says when the count is printed: "always" (print(f'...: {cnt}')),      *)
(* "ifcnt" (if cnt: print(...)), "none".  post lists the prints that       *)
(* follow the statement unconditionally.                                   *)
(***************************************************************************)
ToolStmt(oc, on, nc, nn, na, tag) ==
    [kind |-> "tool", oc |-> oc, on |-> on, nc |-> nc, nn |-> nn, na |-> na,
     tag |-> tag, pr |-> "ifcnt", post |-> <<>>]

LitStmt(old, new, tag, pr) ==
    [kind |-> "lit", old |-> old, new |-> new, tag |-> tag, pr |-> pr, post |-> <<>>]

SubStmt(old, new) ==
    [kind |-> "sub", old |-> old, new |-> new, tag |-> "", pr |-> "none", post |-> <<>>]

CntStmt(old, tag) ==
    [kind |-> "cnt", old |-> old, tag |-> tag, pr |-> "ifcnt", post |-> <<>>]

FindStmt(kind, old, tag) ==
    [kind |-> kind, old |-> old, tag |-> tag, pr |-> "none", post |-> <<>>]

MultiStmt(oc, on, nc, nn, na, tag) ==
    [kind |-> "multi", oc |-> oc, on |-> on, nc |-> nc, nn |-> nn, na |-> na,
     tag |-> tag, pr |-> "ifcnt", post |-> <<>>]

RegexStmt(oc, on, nc, nn, brace, tag, pr) ==
    [kind |-> "regex", oc |-> oc, on |-> on, nc |-> nc, nn |-> nn, brace |-> brace,
     tag |-> tag, pr |-> pr, post |-> <<>>]

\* the statements of a for old_name, new_action in map: loop over replace_tool_call
ToolLoop(map, oc, nc, nn, prefix) ==
    [i \in 1..Len(map) |-> ToolStmt(oc, map[i][1], nc, nn, map[i][2], prefix \o map[i][1])]

\* the statements of a for old, new in replacements: loop
LitLoop(reps, tag) ==
    [i \in 1..Len(reps) |-> LitStmt(reps[i][1], reps[i][2], tag, "ifcnt")]

\* a run of bare content.replace(old, new) calls
SubRun(reps) ==
    [i \in 1..Len(reps) |-> SubStmt(reps[i][1], reps[i][2])]

\* the print that follows the last statement of stmts
ThenPrint(stmts, tag, lines) ==
    [stmts EXCEPT ![Len(stmts)].post = Append(@, [tag |-> tag, lines |-> lines])]

\* transform_e2e.py 320-321
old_copy_src ==
    Ln(6, <<"sourceAddress:", "'A1:C1'", ",">>) \o NL
        \o Ln(6, <<"destinationAddress:", "'A10'", ",">>)
new_copy_src ==
    Ln(6, <<"address:", "'A1:C1'", ",">>) \o NL
        \o Ln(6, <<"destinationAddress:", "'A10'", ",">>)

\* transform_e2e.py 327-328
old_filter ==
    Ln(4, <<"{", "tableName:", "TABLE", ",", "column:", "0", ",", "values:", "['Widget'", ",", "'Gadget']", "}", ",">>)
new_filter ==
    Ln(4, <<"{", "tableName:", "TABLE", ",", "column:", "0", ",", "filterValues:", "['Widget'", ",", "'Gadget']", "}", ",">>)

\* transform_e2e.py 333-334
old_resize ==
    Ln(0, <<"{", "tableName:", "TABLE3", ",", "newAddress:", "'U20:W25'", "}", ",">>)
new_resize ==
    Ln(0, <<"{", "tableName:", "TABLE3", ",", "address:", "'U20:W25'", "}", ",">>)

\* transform_e2e.py 339-340
old_edit1 ==
    Ln(4, <<"{", "cellAddress:", "'L1'", ",", "newText:", "'Updated", "comment'", ",", "sheetName:", "MAIN", "}", ",">>)
new_edit1 ==
    Ln(4, <<"{", "cellAddress:", "'L1'", ",", "text:", "'Updated", "comment'", ",", "sheetName:", "MAIN", "}", ",">>)

\* transform_e2e.py 344-345
old_edit2 ==
    Ln(4, <<"{", "cellAddress:", "'L5'", ",", "newText:", "'Edited", "no", "sheet'", "}", ",">>)
new_edit2 ==
    Ln(4, <<"{", "cellAddress:", "'L5'", ",", "text:", "'Edited", "no", "sheet'", "}", ",">>)

\* transform_e2e.py 350-351
old_bar ==
    Ln(4, <<"{", "address:", "CF_RANGE", ",", "barColor:", "'#638EC6'", ",", "sheetName:", "MAIN", "}", ",">>)
new_bar ==
    Ln(4, <<"{", "address:", "CF_RANGE", ",", "fillColor:", "'#638EC6'", ",", "sheetName:", "MAIN", "}", ",">>)

\* transform_e2e.py 357-388: the eight content.replace calls (fillColor -> backgroundColor)
cell_value_replacements == <<
    << Ln(6, <<"operator:", "'GreaterThan'", ",">>) \o NL
        \o Ln(6, <<"formula1:", "'40'", ",">>) \o NL
        \o Ln(6, <<"fillColor:", "'#00FF00'", ",">>),
       Ln(6, <<"operator:", "'GreaterThan'", ",">>) \o NL
        \o Ln(6, <<"formula1:", "'40'", ",">>) \o NL
        \o Ln(6, <<"backgroundColor:", "'#00FF00'", ",">>) >>,
    << Ln(6, <<"operator:", "'Between'", ",">>) \o NL
        \o Ln(6, <<"formula1:", "'20'", ",">>) \o NL
        \o Ln(6, <<"formula2:", "'50'", ",">>) \o NL
        \o Ln(6, <<"fontColor:", "'#0000FF'", ",">>) \o NL
        \o Ln(6, <<"fillColor:", "'#FFFF00'", ",">>),
       Ln(6, <<"operator:", "'Between'", ",">>) \o NL
        \o Ln(6, <<"formula1:", "'20'", ",">>) \o NL
        \o Ln(6, <<"formula2:", "'50'", ",">>) \o NL
        \o Ln(6, <<"fontColor:", "'#0000FF'", ",">>) \o NL
        \o Ln(6, <<"backgroundColor:", "'#FFFF00'", ",">>) >>,
    << Ln(6, <<"operator:", "'LessThan'", ",">>) \o NL
        \o Ln(6, <<"formula1:", "'25'", ",">>) \o NL
        \o Ln(6, <<"fillColor:", "'orange'", ",">>),
       Ln(6, <<"operator:", "'LessThan'", ",">>) \o NL
        \o Ln(6, <<"formula1:", "'25'", ",">>) \o NL
        \o Ln(6, <<"backgroundColor:", "'orange'", ",">>) >>,
    << Ln(4, <<"{", "address:", "CF_RANGE", ",", "operator:", "'EqualTo'", ",", "formula1:", "'30'", ",", "fillColor:", "'cyan'", ",", "sheetName:", "MAIN", "}", ",">>),
       Ln(4, <<"{", "address:", "CF_RANGE", ",", "operator:", "'EqualTo'", ",", "formula1:", "'30'", ",", "backgroundColor:", "'cyan'", ",", "sheetName:", "MAIN", "}", ",">>) >>,
    << Ln(6, <<"operator:", "'NotEqualTo'", ",">>) \o NL
        \o Ln(6, <<"formula1:", "'50'", ",">>) \o NL
        \o Ln(6, <<"fillColor:", "'pink'", ",">>),
       Ln(6, <<"operator:", "'NotEqualTo'", ",">>) \o NL
        \o Ln(6, <<"formula1:", "'50'", ",">>) \o NL
        \o Ln(6, <<"backgroundColor:", "'pink'", ",">>) >>,
    << Ln(6, <<"operator:", "'GreaterThanOrEqual'", ",">>) \o NL
        \o Ln(6, <<"formula1:", "'30'", ",">>) \o NL
        \o Ln(6, <<"fillColor:", "'lime'", ",">>),
       Ln(6, <<"operator:", "'GreaterThanOrEqual'", ",">>) \o NL
        \o Ln(6, <<"formula1:", "'30'", ",">>) \o NL
        \o Ln(6, <<"backgroundColor:", "'lime'", ",">>) >>,
    << Ln(6, <<"operator:", "'LessThanOrEqual'", ",">>) \o NL
        \o Ln(6, <<"formula1:", "'40'", ",">>) \o NL
        \o Ln(6, <<"fillColor:", "'navy'", ",">>),
       Ln(6, <<"operator:", "'LessThanOrEqual'", ",">>) \o NL
        \o Ln(6, <<"formula1:", "'40'", ",">>) \o NL
        \o Ln(6, <<"backgroundColor:", "'navy'", ",">>) >>,
    << Ln(6, <<"operator:", "'NotBetween'", ",">>) \o NL
        \o Ln(6, <<"formula1:", "'25'", ",">>) \o NL
        \o Ln(6, <<"formula2:", "'45'", ",">>) \o NL
        \o Ln(6, <<"fillColor:", "'teal'", ",">>),
       Ln(6, <<"operator:", "'NotBetween'", ",">>) \o NL
        \o Ln(6, <<"formula1:", "'25'", ",">>) \o NL
        \o Ln(6, <<"formula2:", "'45'", ",">>) \o NL
        \o Ln(6, <<"backgroundColor:", "'teal'", ",">>) >> >>

\* transform_e2e.py 393-414
tb_replacements == <<
    << Ln(4, <<"{", "address:", "CF_RANGE", ",", "rank:", "3", ",", "topOrBottom:", "'TopItems'", ",", "fillColor:", "'green'", ",", "sheetName:", "MAIN", "}", ",">>),
       Ln(4, <<"{", "address:", "CF_RANGE", ",", "topBottomRank:", "3", ",", "topBottomType:", "'TopItems'", ",", "backgroundColor:", "'green'", ",", "sheetName:", "MAIN", "}", ",">>) >>,
    << Ln(4, <<"{", "address:", "CF_RANGE", ",", "rank:", "2", ",", "topOrBottom:", "'BottomItems'", ",", "fillColor:", "'red'", ",", "sheetName:", "MAIN", "}", ",">>),
       Ln(4, <<"{", "address:", "CF_RANGE", ",", "topBottomRank:", "2", ",", "topBottomType:", "'BottomItems'", ",", "backgroundColor:", "'red'", ",", "sheetName:", "MAIN", "}", ",">>) >>,
    << Ln(6, <<"rank:", "50", ",">>) \o NL
        \o Ln(6, <<"topOrBottom:", "'TopPercent'", ",">>) \o NL
        \o Ln(6, <<"fillColor:", "'purple'", ",">>),
       Ln(6, <<"topBottomRank:", "50", ",">>) \o NL
        \o Ln(6, <<"topBottomType:", "'TopPercent'", ",">>) \o NL
        \o Ln(6, <<"backgroundColor:", "'purple'", ",">>) >>,
    << Ln(4, <<"{", "address:", "CF_RANGE", ",", "fontColor:", "'white'", ",", "fillColor:", "'black'", ",", "sheetName:", "MAIN", "}", ",">>),
       Ln(4, <<"{", "address:", "CF_RANGE", ",", "fontColor:", "'white'", ",", "backgroundColor:", "'black'", ",", "sheetName:", "MAIN", "}", ",">>) >>,
    << Ln(6, <<"rank:", "25", ",">>) \o NL
        \o Ln(6, <<"topOrBottom:", "'BottomPercent'", ",">>) \o NL
        \o Ln(6, <<"fillColor:", "'maroon'", ",">>),
       Ln(6, <<"topBottomRank:", "25", ",">>) \o NL
        \o Ln(6, <<"topBottomType:", "'BottomPercent'", ",">>) \o NL
        \o Ln(6, <<"backgroundColor:", "'maroon'", ",">>) >> >>

\* transform_e2e.py 421-434
ct_replacements == <<
    << Ln(4, <<"{", "address:", "'B30:B36'", ",", "text:", "'Error'", ",", "fontColor:", "'red'", ",", "sheetName:", "MAIN", "}", ",">>),
       Ln(4, <<"{", "address:", "'B30:B36'", ",", "containsText:", "'Error'", ",", "fontColor:", "'red'", ",", "sheetName:", "MAIN", "}", ",">>) >>,
    << Ln(4, <<"{", "address:", "'B30:B36'", ",", "text:", "'OK'", ",", "sheetName:", "MAIN", "}", ",">>),
       Ln(4, <<"{", "address:", "'B30:B36'", ",", "containsText:", "'OK'", ",", "sheetName:", "MAIN", "}", ",">>) >>,
    << Ln(4, <<"{", "address:", "'B30:B36'", ",", "text:", "'Warning'", ",", "fillColor:", "'#FFA500'", ",", "sheetName:", "MAIN", "}", ",">>),
       Ln(4, <<"{", "address:", "'B30:B36'", ",", "containsText:", "'Warning'", ",", "backgroundColor:", "'#FFA500'", ",", "sheetName:", "MAIN", "}", ",">>) >> >>

\* transform_e2e.py 441-450
cf_custom_replacements == <<
    << Ln(4, <<"{", "address:", "CF_RANGE", ",", "formula:", "'=A30>50'", ",", "fillColor:", "'#FF00FF'", ",", "sheetName:", "MAIN", "}", ",">>),
       Ln(4, <<"{", "address:", "CF_RANGE", ",", "formula1:", "'=A30>50'", ",", "backgroundColor:", "'#FF00FF'", ",", "sheetName:", "MAIN", "}", ",">>) >>,
    << Ln(4, <<"{", "address:", "CF_RANGE", ",", "formula:", "'=A30<20'", ",", "fontColor:", "'red'", ",", "sheetName:", "MAIN", "}", ",">>),
       Ln(4, <<"{", "address:", "CF_RANGE", ",", "formula1:", "'=A30<20'", ",", "fontColor:", "'red'", ",", "sheetName:", "MAIN", "}", ",">>) >> >>

\* transform_e2e.py 458-459
old_dv1 ==
    <<" ", " ", " ", " ", "{", " ", "address:", " ", "'C30'", ",", " ", "source:", " ", "'Yes", ",", "No", ",", "Maybe'", ",", " ", "sheetName:", " ", "MAIN", " ", "}", ",">>
new_dv1 ==
    Ln(4, <<"{", "address:", "'C30'", ",", "listValues:", "['Yes'", ",", "'No'", ",", "'Maybe']", ",", "sheetName:", "MAIN", "}", ",">>)

\* transform_e2e.py 464-472
old_dv2 ==
    Ln(6, <<"address:", "'C31'", ",">>) \o NL
        \o <<" ", " ", " ", " ", " ", " ", "source:", " ", "'A", ",", "B", ",", "C'", ",">> \o NL
        \o Ln(6, <<"inCellDropDown:", "false", ",">>) \o NL
new_dv2 ==
    Ln(6, <<"address:", "'C31'", ",">>) \o NL
        \o Ln(6, <<"listValues:", "['A'", ",", "'B'", ",", "'C']", ",">>) \o NL

\* transform_e2e.py 479-502: the six content.replace calls (numberType -> type)
number_type_replacements == <<
    << Ln(0, <<"{", "action:", "'set'", ",">>) \o NL
        \o Ln(6, <<"address:", "'D30'", ",">>) \o NL
        \o Ln(6, <<"numberType:", "'wholeNumber'", ",">>),
       Ln(0, <<"{", "action:", "'set'", ",">>) \o NL
        \o Ln(6, <<"address:", "'D30'", ",">>) \o NL
        \o Ln(6, <<"type:", "'number'", ",">>) >>,
    << Ln(0, <<"{", "action:", "'set'", ",">>) \o NL
        \o Ln(6, <<"address:", "'D31'", ",">>) \o NL
        \o Ln(6, <<"numberType:", "'decimal'", ",">>),
       Ln(0, <<"{", "action:", "'set'", ",">>) \o NL
        \o Ln(6, <<"address:", "'D31'", ",">>) \o NL
        \o Ln(6, <<"type:", "'decimal'", ",">>) >>,
    << Ln(0, <<"{", "action:", "'set'", ",">>) \o NL
        \o Ln(6, <<"address:", "'D32'", ",">>) \o NL
        \o Ln(6, <<"numberType:", "'wholeNumber'", ",">>),
       Ln(0, <<"{", "action:", "'set'", ",">>) \o NL
        \o Ln(6, <<"address:", "'D32'", ",">>) \o NL
        \o Ln(6, <<"type:", "'number'", ",">>) >>,
    << Ln(0, <<"{", "action:", "'set'", ",">>) \o NL
        \o Ln(6, <<"address:", "'D33'", ",">>) \o NL
        \o Ln(6, <<"numberType:", "'wholeNumber'", ",">>),
       Ln(0, <<"{", "action:", "'set'", ",">>) \o NL
        \o Ln(6, <<"address:", "'D33'", ",">>) \o NL
        \o Ln(6, <<"type:", "'number'", ",">>) >>,
    << Ln(0, <<"{", "action:", "'set'", ",">>) \o NL
        \o Ln(6, <<"address:", "'H31'", ",">>) \o NL
        \o Ln(6, <<"numberType:", "'wholeNumber'", ",">>),
       Ln(0, <<"{", "action:", "'set'", ",">>) \o NL
        \o Ln(6, <<"address:", "'H31'", ",">>) \o NL
        \o Ln(6, <<"type:", "'number'", ",">>) >>,
    << Ln(0, <<"{", "action:", "'set'", ",">>) \o NL
        \o Ln(6, <<"address:", "'H32'", ",">>) \o NL
        \o Ln(6, <<"numberType:", "'decimal'", ",">>),
       Ln(0, <<"{", "action:", "'set'", ",">>) \o NL
        \o Ln(6, <<"address:", "'H32'", ",">>) \o NL
        \o Ln(6, <<"type:", "'decimal'", ",">>) >> >>

\* transform_e2e.py 506-513
custom_formula_replacements == <<
    << Ln(0, <<"{", "action:", "'set'", ",", "type:", "'custom'", ",">>) \o NL
        \o <<" ", " ", " ", " ", " ", " ", "address:", " ", "'G30'", ",", " ", "formula:", " ", "'=LEN", "(", "G30)<=100'", ",">>,
       Ln(0, <<"{", "action:", "'set'", ",", "type:", "'custom'", ",">>) \o NL
        \o <<" ", " ", " ", " ", " ", " ", "address:", " ", "'G30'", ",", " ", "customFormula:", " ", "'=LEN", "(", "G30)<=100'", ",">> >>,
    << Ln(0, <<"{", "action:", "'set'", ",", "type:", "'custom'", ",">>) \o NL
        \o Ln(6, <<"address:", "'G31'", ",">>) \o NL
        \o <<" ", " ", " ", " ", " ", " ", "formula:", " ", "'=ISNUMBER", "(", "G31)'", ",">>,
       Ln(0, <<"{", "action:", "'set'", ",", "type:", "'custom'", ",">>) \o NL
        \o Ln(6, <<"address:", "'G31'", ",">>) \o NL
        \o <<" ", " ", " ", " ", " ", " ", "customFormula:", " ", "'=ISNUMBER", "(", "G31)'", ",">> >> >>

\* transform_e2e.py 518-526
label_filter_replacements == <<
    << Ln(6, <<"pivotTableName:", "PT_NAME", ",">>) \o NL
        \o Ln(6, <<"fieldName:", "'Region'", ",">>) \o NL
        \o Ln(6, <<"condition:", "'Contains'", ",">>) \o NL
        \o Ln(6, <<"value1:", "'North'", ",">>),
       Ln(6, <<"pivotTableName:", "PT_NAME", ",">>) \o NL
        \o Ln(6, <<"fieldName:", "'Region'", ",">>) \o NL
        \o Ln(6, <<"labelCondition:", "'Contains'", ",">>) \o NL
        \o Ln(6, <<"labelValue1:", "'North'", ",">>) >>,
    << Ln(6, <<"pivotTableName:", "PT_V", ",">>) \o NL
        \o Ln(6, <<"fieldName:", "'Region'", ",">>) \o NL
        \o Ln(6, <<"condition:", "'Between'", ",">>) \o NL
        \o Ln(6, <<"value1:", "'A'", ",">>) \o NL
        \o Ln(6, <<"value2:", "'Z'", ",">>),
       Ln(6, <<"pivotTableName:", "PT_V", ",">>) \o NL
        \o Ln(6, <<"fieldName:", "'Region'", ",">>) \o NL
        \o Ln(6, <<"labelCondition:", "'Between'", ",">>) \o NL
        \o Ln(6, <<"labelValue1:", "'A'", ",">>) \o NL
        \o Ln(6, <<"labelValue2:", "'Z'", ",">>) >> >>

\* transform_e2e.py 534-535
old_manual ==
    Ln(0, <<"pivotTableConfigs", ",", "'pivot'", ",", "{", "action:", "'filter'", ",">>) \o NL
        \o Ln(6, <<"pivotTableName:", "PT_NAME", ",">>) \o NL
        \o Ln(6, <<"fieldName:", "'Region'", ",">>) \o NL
        \o Ln(6, <<"selectedItems:", "['North']", ",">>)
new_manual ==
    Ln(0, <<"pivotTableConfigs", ",", "'pivot'", ",", "{", "action:", "'filter'", ",", "filterType:", "'manual'", ",">>) \o NL
        \o Ln(6, <<"pivotTableName:", "PT_NAME", ",">>) \o NL
        \o Ln(6, <<"fieldName:", "'Region'", ",">>) \o NL
        \o Ln(6, <<"selectedItems:", "['North']", ",">>)

\* transform_e2e.py 539-540
old_manual2 ==
    Ln(0, <<"pivotTableConfigs", ",", "'pivot'", ",", "{", "action:", "'filter'", ",">>) \o NL
        \o Ln(6, <<"pivotTableName:", "PT_V", ",">>) \o NL
        \o Ln(6, <<"fieldName:", "'Region'", ",">>) \o NL
        \o Ln(6, <<"selectedItems:", "['North'", ",", "'South']", ",">>)
new_manual2 ==
    Ln(0, <<"pivotTableConfigs", ",", "'pivot'", ",", "{", "action:", "'filter'", ",", "filterType:", "'manual'", ",">>) \o NL
        \o Ln(6, <<"pivotTableName:", "PT_V", ",">>) \o NL
        \o Ln(6, <<"fieldName:", "'Region'", ",">>) \o NL
        \o Ln(6, <<"selectedItems:", "['North'", ",", "'South']", ",">>)

\* transform_e2e.py 546-549
sort_labels_replacement == <<
    << Ln(0, <<"{", "action:", "'sort'", ",">>) \o NL
        \o Ln(4, <<"{", "pivotTableName:", "PT_NAME", ",", "fieldName:", "'Region'", ",", "sortBy:", "'Descending'", ",">>),
       Ln(0, <<"{", "action:", "'sort'", ",", "sortMode:", "'labels'", ",">>) \o NL
        \o Ln(4, <<"{", "pivotTableName:", "PT_NAME", ",", "fieldName:", "'Region'", ",", "sortBy:", "'Descending'", ",">>) >> >>

(***************************************************************************)
(* transform_e2e.py, the single rules of STEP 3a-3i (old_p / new_p).       *)
(***************************************************************************)
\* transform_e2e.py 90-91
old_p_auto_fit_columns == Ln(0, <<"rangeConfigs", ",", "'auto_fit_columns'", ",", "{">>)
new_p_auto_fit_columns ==
    Ln(0, <<"rangeFormatConfigs", ",", "'range_format'", ",", "{", "action:", "'auto_fit'", ",", "fitTarget:", "'columns'", ",">>)
\* transform_e2e.py 95-96
old_p_auto_fit_rows == Ln(0, <<"rangeConfigs", ",", "'auto_fit_rows'", ",", "{">>)
new_p_auto_fit_rows ==
    Ln(0, <<"rangeFormatConfigs", ",", "'range_format'", ",", "{", "action:", "'auto_fit'", ",", "fitTarget:", "'rows'", ",">>)

\* transform_e2e.py 214-218
cf_add_old_p(old_name) ==
    Ln(0, <<"conditionalFormatConfigs", ",", Quote(old_name), ",", "{">>)
cf_add_new_p(cf_type) ==
    Ln(0, <<"conditionalFormatConfigs", ",", "'conditional_format'", ",", "{", "action:", "'add'", ",", "type:", Quote(cf_type), ",">>)
cf_add_loop ==
    [i \in 1..Len(cf_add_map) |->
        LitStmt(cf_add_old_p(cf_add_map[i][1]), cf_add_new_p(cf_add_map[i][2]),
                "cf/" \o cf_add_map[i][1], "ifcnt")]

\* transform_e2e.py 230-231
old_p_set_list_validation == Ln(0, <<"dataValidationConfigs", ",", "'set_list_validation'", ",", "{">>)
new_p_set_list_validation ==
    Ln(0, <<"dataValidationConfigs", ",", "'data_validation'", ",", "{", "action:", "'set'", ",", "type:", "'list'", ",">>)
\* transform_e2e.py 235-236
old_p_set_date_validation == Ln(0, <<"dataValidationConfigs", ",", "'set_date_validation'", ",", "{">>)
new_p_set_date_validation ==
    Ln(0, <<"dataValidationConfigs", ",", "'data_validation'", ",", "{", "action:", "'set'", ",", "type:", "'date'", ",">>)
\* transform_e2e.py 240-241
old_p_set_text_length_validation == Ln(0, <<"dataValidationConfigs", ",", "'set_text_length_validation'", ",", "{">>)
new_p_set_text_length_validation ==
    Ln(0, <<"dataValidationConfigs", ",", "'data_validation'", ",", "{", "action:", "'set'", ",", "type:", "'textLength'", ",">>)
\* transform_e2e.py 245-246
old_p_set_custom_validation == Ln(0, <<"dataValidationConfigs", ",", "'set_custom_validation'", ",", "{">>)
new_p_set_custom_validation ==
    Ln(0, <<"dataValidationConfigs", ",", "'data_validation'", ",", "{", "action:", "'set'", ",", "type:", "'custom'", ",">>)
\* transform_e2e.py 251-252
old_p_set_number_validation == Ln(0, <<"dataValidationConfigs", ",", "'set_number_validation'", ",", "{">>)
new_p_set_number_validation ==
    Ln(0, <<"dataValidationConfigs", ",", "'data_validation'", ",", "{", "action:", "'set'", ",">>)
\* transform_e2e.py 282-283
old_p_apply_pivot_label_filter == Ln(0, <<"pivotTableConfigs", ",", "'apply_pivot_label_filter'", ",", "{">>)
new_p_apply_pivot_label_filter ==
    Ln(0, <<"pivotTableConfigs", ",", "'pivot'", ",", "{", "action:", "'filter'", ",", "filterType:", "'label'", ",">>)
\* transform_e2e.py 288-289
old_p_clear_pivot_field_filters == Ln(0, <<"pivotTableConfigs", ",", "'clear_pivot_field_filters'", ",", "{">>)
new_p_clear_pivot_field_filters ==
    Ln(0, <<"pivotTableConfigs", ",", "'pivot'", ",", "{", "action:", "'filter'", ",", "filterType:", "'clear'", ",">>)

\* transform_e2e.py 304-307
pivot_dropped_loop ==
    [i \in 1..Len(pivot_dropped) |->
        CntStmt(Ln(0, <<"pivotTableConfigs", ",", Quote(pivot_dropped[i]), ",", "{">>),
                "WARNING: dropped pivot " \o pivot_dropped[i])]

\* transform_e2e.py 556, 563
sort_labels_quoted == <<"'sort_pivot_field_labels'">>
sort_labels_new_format ==
    Ln(0, <<"action:", "'sort'", ",">>) \o NL
        \o Ln(4, <<"{", "pivotTableName:", "PT_NAME", ",", "fieldName:", "'Region'", ",", "sortBy:", "'Descending'", ",", "sheetName:", "PIVOT_DST", "}">>)

(***************************************************************************)
(* transform_e2e.py from line 45 to line 566, in source order.             *)
(***************************************************************************)
Step3Basic ==
    ToolLoop(range_tool_map, "rangeConfigs", "rangeConfigs", "range", "range/")
    \o ToolLoop(range_format_map, "rangeConfigs", "rangeFormatConfigs", "range_format", "range_format/")
    \o << LitStmt(old_p_auto_fit_columns, new_p_auto_fit_columns, "auto_fit_columns", "always"),
          LitStmt(old_p_auto_fit_rows, new_p_auto_fit_rows, "auto_fit_rows", "always") >>
    \o ToolLoop(table_map, "tableConfigs", "tableConfigs", "table", "table/")
    \o ToolLoop(chart_map, "chartConfigs", "chartConfigs", "chart", "chart/")
    \o ToolLoop(sheet_map, "sheetConfigs", "sheetConfigs", "sheet", "sheet/")
    \o ToolLoop(workbook_map, "workbookConfigs", "workbookConfigs", "workbook", "workbook/")
    \o ToolLoop(comment_map, "commentConfigs", "commentConfigs", "comment", "comment/")
    \o ToolLoop(cf_map, "conditionalFormatConfigs", "conditionalFormatConfigs", "conditional_format", "cf/")
    \o cf_add_loop
    \o ToolLoop(dv_map, "dataValidationConfigs", "dataValidationConfigs", "data_validation", "dv/")
    \o << LitStmt(old_p_set_list_validation, new_p_set_list_validation, "set_list_validation", "always"),
          LitStmt(old_p_set_date_validation, new_p_set_date_validation, "set_date_validation", "always"),
          LitStmt(old_p_set_text_length_validation, new_p_set_text_length_validation, "set_text_length_validation", "always"),
          LitStmt(old_p_set_custom_validation, new_p_set_custom_validation, "set_custom_validation", "always"),
          LitStmt(old_p_set_number_validation, new_p_set_number_validation, "set_number_validation", "always") >>
    \o ToolLoop(pivot_map, "pivotTableConfigs", "pivotTableConfigs", "pivot", "pivot/")
    \o << LitStmt(old_p_apply_pivot_label_filter, new_p_apply_pivot_label_filter, "apply_pivot_label_filter", "always"),
          LitStmt(old_p_clear_pivot_field_filters, new_p_clear_pivot_field_filters, "clear_pivot_field_filters", "always") >>
    \o ThenPrint(pivot_dropped_loop, "After basic name/action transforms", TRUE)

Step3ArgRenames ==
    << LitStmt(old_copy_src, new_copy_src, "copy_range sourceAddress->address", "always"),
       LitStmt(old_filter, new_filter, "filter_table values->filterValues", "always"),
       LitStmt(old_resize, new_resize, "resize_table newAddress->address", "always"),
       LitStmt(old_edit1, new_edit1, "edit_comment newText->text (1)", "always"),
       LitStmt(old_edit2, new_edit2, "edit_comment newText->text (2)", "always"),
       LitStmt(old_bar, new_bar, "add_data_bar barColor->fillColor", "always") >>
    \o ThenPrint(SubRun(cell_value_replacements), "CF cell_value fillColor->backgroundColor done", FALSE)
    \o LitLoop(tb_replacements, "top_bottom arg rename")
    \o LitLoop(ct_replacements, "contains_text arg rename")
    \o LitLoop(cf_custom_replacements, "custom_format arg rename")
    \o << LitStmt(old_dv1, new_dv1, "set_list source->listValues (1)", "always"),
          LitStmt(old_dv2, new_dv2, "set_list source->listValues (2)", "always") >>
    \o ThenPrint(SubRun(number_type_replacements), "set_number_validation numberType->type done", FALSE)
    \o ThenPrint(SubRun(custom_formula_replacements), "set_custom_validation formula->customFormula done", FALSE)
    \o ThenPrint(SubRun(label_filter_replacements), "pivot label filter renames done", FALSE)
    \o << LitStmt(old_manual, new_manual, "pivot manual filter PT_NAME", "always"),
          LitStmt(old_manual2, new_manual2, "pivot manual filter PT_V", "always") >>
    \o SubRun(sort_labels_replacement)
    \o << FindStmt("find_warn", sort_labels_quoted, "sort_pivot_field_labels"),
          ThenPrint(<< FindStmt("find_idx", sort_labels_new_format, "sort_labels_idx") >>,
                    "After all arg renames", TRUE)[1] >>

Pass1Prog == Step3Basic \o Step3ArgRenames

(***************************************************************************)
(* transform_e2e_pass2.py: the regular expression                          *)
(*   re.escape(old_configs) ,\n(\s+) 're.escape(old_name)' ,\n(\s+)\{      *)
(* and pattern.subn(repl, text).  \s+ is greedy and is followed by a       *)
(* non-space character, so each group is a maximal run of whitespace.      *)
(***************************************************************************)
RECURSIVE ws_run(_, _)
ws_run(text, i) ==
    IF i <= Len(text) /\ text[i] \in WS THEN 1 + ws_run(text, i + 1) ELSE 0

\* the match of the pattern that starts at lexeme i, if there is one
multiline_match(text, old_configs, old_name, i) ==
    LET n1 == ws_run(text, i + 3)
        j  == i + 3 + n1
        n2 == ws_run(text, j + 3)
        k  == j + 3 + n2
    IN  IF /\ k <= Len(text)
           /\ text[i] = old_configs
           /\ text[i + 1] = ","
           /\ text[i + 2] = "\n"
           /\ n1 >= 1
           /\ text[j] = Quote(old_name)
           /\ text[j + 1] = ","
           /\ text[j + 2] = "\n"
           /\ n2 >= 1
           /\ text[k] = "{"
        THEN [ok |-> TRUE, indent1 |-> SubSeq(text, i + 3, j - 1),
              indent2 |-> SubSeq(text, j + 3, k - 1), len |-> k - i + 1]
        ELSE [ok |-> FALSE, indent1 |-> <<>>, indent2 |-> <<>>, len |-> 0]

\* a replacement that indents both lines by two blanks whatever the match held
multiline_repl_fixed_indent(m, new_configs, new_name, brace) ==
    <<new_configs, ",", "\n", " ", " ", Quote(new_name), ",", "\n", " ", " ">> \o brace

\* repl(m): new_configs,\n{indent1}'new_name',\n{indent2}{brace}
multiline_repl(m, new_configs, new_name, brace) ==
    <<new_configs, ",", "\n">> \o m.indent1
        \o <<Quote(new_name), ",", "\n">> \o m.indent2 \o brace

\* every position where the pattern matches
multiline_matches(text, old_configs, old_name) ==
    {i \in 1..Len(text) :
        text[i] = old_configs /\ multiline_match(text, old_configs, old_name, i).ok}

\* pattern.subn(repl, text): the matches from left to right, none overlapping
RECURSIVE subn_from(_, _, _, _, _, _, _, _)
subn_from(text, occ, old_configs, old_name, new_configs, new_name, brace, i) ==
    LET later == {k \in occ : k >= i}
    IN  IF later = {} THEN [text |-> SubSeq(text, i, Len(text)), cnt |-> 0]
        ELSE LET at == CHOOSE k \in later : \A l \in later : k <= l
                 m  == multiline_match(text, old_configs, old_name, at)
                 r  == subn_from(text, occ, old_configs, old_name, new_configs,
                                 new_name, brace, at + m.len)
             IN  [text |-> SubSeq(text, i, at - 1)
                            \o multiline_repl(m, new_configs, new_name, brace) \o r.text,
                  cnt |-> r.cnt + 1]

pattern_subn(text, old_configs, old_name, new_configs, new_name, brace) ==
    subn_from(text, multiline_matches(text, old_configs, old_name),
              old_configs, old_name, new_configs, new_name, brace, 1)

\* a replacement that writes the old tool name back
replace_multiline_tool_keeps_name(text, old_configs, old_name, new_configs, new_name, new_action) ==
    pattern_subn(text, old_configs, old_name, new_configs, old_name,
                 IF new_action # ""
                 THEN Ln(0, <<"{", "action:", Quote(new_action), ",">>)
                 ELSE <<"{">>)

replace_multiline_tool(text, old_configs, old_name, new_configs, new_name, new_action) ==
    pattern_subn(text, old_configs, old_name, new_configs, new_name,
                 IF new_action # ""
                 THEN Ln(0, <<"{", "action:", Quote(new_action), ",">>)
                 ELSE <<"{">>)

(***************************************************************************)
(* transform_e2e_pass2.py, the rename tables.                              *)
(***************************************************************************)
\* transform_e2e_pass2.py 38-47
range_multiline_map == <<
    <<"set_range_values", "set_values">>,
    <<"sort_range", "sort">>,
    <<"delete_range", "delete">>,
    <<"insert_range", "insert">>,
    <<"replace_values", "replace">>,
    <<"remove_duplicates", "remove_duplicates">>,
    <<"set_range_formulas", "set_formulas">>,
    <<"auto_fill_range", "fill">> >>

\* transform_e2e_pass2.py 53-58
range_format_multiline == <<
    <<"format_range", "format">>,
    <<"set_number_format", "set_number_format">>,
    <<"set_cell_borders", "set_borders">>,
    <<"set_hyperlink", "set_hyperlink">> >>

\* transform_e2e_pass2.py 77-85
table_multiline == <<
    <<"add_table_rows", "add_rows">>,
    <<"sort_table", "sort">>,
    <<"filter_table", "filter">>,
    <<"add_table_column", "add_column">>,
    <<"delete_table_column", "delete_column">>,
    <<"set_table_style", "configure">>,
    <<"set_table_header_totals_visibility", "configure">> >>

\* transform_e2e_pass2.py 91-101
chart_multiline == <<
    <<"create_chart", "create">>,
    <<"set_chart_title", "configure">>,
    <<"set_chart_type", "configure">>,
    <<"set_chart_data_source", "configure">>,
    <<"set_chart_position", "configure">>,
    <<"set_chart_legend_visibility", "configure">>,
    <<"set_chart_axis_title", "configure">>,
    <<"set_chart_axis_visibility", "configure">>,
    <<"set_chart_series_filtered", "configure">> >>

\* transform_e2e_pass2.py 107-112
sheet_multiline == <<
    <<"rename_sheet", "rename">>,
    <<"set_sheet_gridlines", "set_gridlines">>,
    <<"set_sheet_headings", "set_headings">>,
    <<"set_page_layout", "set_page_layout">> >>

\* transform_e2e_pass2.py 118-121
workbook_multiline == <<
    <<"set_workbook_properties", "set_properties">>,
    <<"define_named_range", "define_named_range">> >>

\* transform_e2e_pass2.py 127-130
comment_multiline == <<
    <<"add_comment", "add">>,
    <<"edit_comment", "edit">> >>

\* transform_e2e_pass2.py 136-139
cf_multiline == <<
    <<"list_conditional_formats", "list">>,
    <<"clear_conditional_formats", "clear">> >>

\* transform_e2e_pass2.py 145-152
cf_add_multiline == <<
    <<"add_color_scale", "colorScale">>,
    <<"add_data_bar", "dataBar">>,
    <<"add_cell_value_format", "cellValue">>,
    <<"add_top_bottom_format", "topBottom">>,
    <<"add_contains_text_format", "containsText">>,
    <<"add_custom_format", "custom">> >>

\* transform_e2e_pass2.py 166-169
dv_multiline == <<
    <<"get_data_validation", "get">>,
    <<"clear_data_validation", "clear">> >>

\* transform_e2e_pass2.py 210-226
pivot_multiline == <<
    <<"create_pivot_table", "create">>,
    <<"delete_pivot_table", "delete">>,
    <<"refresh_pivot_table", "refresh">>,
    <<"add_pivot_field", "add_field">>,
    <<"remove_pivot_field", "remove_field">>,
    <<"set_pivot_layout", "configure">>,
    <<"set_pivot_table_options", "configure">>,
    <<"apply_pivot_manual_filter", "filter">>,
    <<"sort_pivot_field_labels", "sort">>,
    <<"sort_pivot_field_values", "sort">>,
    <<"pivot_table_exists", "list">>,
    <<"get_pivot_table_location", "get_info">>,
    <<"get_pivot_table_source_info", "get_info">>,
    <<"get_pivot_hierarchy_counts", "get_info">>,
    <<"get_pivot_hierarchies", "get_info">> >>

\* the statements of a for old, new_action in map: loop over replace_multiline_tool
MultiLoop(map, oc, nc, nn, prefix) ==
    [i \in 1..Len(map) |-> MultiStmt(oc, map[i][1], nc, nn, map[i][2], prefix \o map[i][1])]

\* transform_e2e_pass2.py 153-163
cf_add_multiline_loop ==
    [i \in 1..Len(cf_add_multiline) |->
        RegexStmt("conditionalFormatConfigs", cf_add_multiline[i][1],
                  "conditionalFormatConfigs", "conditional_format",
                  Ln(0, <<"{", "action:", "'add'", ",", "type:", Quote(cf_add_multiline[i][2]), ",">>),
                  "cf/" \o cf_add_multiline[i][1], "ifcnt")]

\* transform_e2e_pass2.py 64-74
repl_cols == Ln(0, <<"{", "action:", "'auto_fit'", ",", "fitTarget:", "'columns'", ",">>)
repl_rows == Ln(0, <<"{", "action:", "'auto_fit'", ",", "fitTarget:", "'rows'", ",">>)
\* transform_e2e_pass2.py 175-207
repl_list == Ln(0, <<"{", "action:", "'set'", ",", "type:", "'list'", ",">>)
repl_date == Ln(0, <<"{", "action:", "'set'", ",", "type:", "'date'", ",">>)
repl_text == Ln(0, <<"{", "action:", "'set'", ",", "type:", "'textLength'", ",">>)
repl_custom == Ln(0, <<"{", "action:", "'set'", ",", "type:", "'custom'", ",">>)
repl_num == Ln(0, <<"{", "action:", "'set'", ",">>)
\* transform_e2e_pass2.py 232-243
repl_plf == Ln(0, <<"{", "action:", "'filter'", ",", "filterType:", "'label'", ",">>)
repl_cpff == Ln(0, <<"{", "action:", "'filter'", ",", "filterType:", "'clear'", ",">>)

\* transform_e2e_pass2.py 272
sort_action_text == Ln(0, <<"action:", "'sort'", ",">>)

(***************************************************************************)
(* transform_e2e_pass2.py from line 37 to line 274, in source order.       *)
(***************************************************************************)
Pass2Prog ==
    MultiLoop(range_multiline_map, "rangeConfigs", "rangeConfigs", "range", "range/")
    \o MultiLoop(range_format_multiline, "rangeConfigs", "rangeFormatConfigs", "range_format", "range_format/")
    \o << RegexStmt("rangeConfigs", "auto_fit_columns", "rangeFormatConfigs", "range_format",
                    repl_cols, "auto_fit_columns multi", "always"),
          RegexStmt("rangeConfigs", "auto_fit_rows", "rangeFormatConfigs", "range_format",
                    repl_rows, "auto_fit_rows multi", "always") >>
    \o MultiLoop(table_multiline, "tableConfigs", "tableConfigs", "table", "table/")
    \o MultiLoop(chart_multiline, "chartConfigs", "chartConfigs", "chart", "chart/")
    \o MultiLoop(sheet_multiline, "sheetConfigs", "sheetConfigs", "sheet", "sheet/")
    \o MultiLoop(workbook_multiline, "workbookConfigs", "workbookConfigs", "workbook", "workbook/")
    \o MultiLoop(comment_multiline, "commentConfigs", "commentConfigs", "comment", "comment/")
    \o MultiLoop(cf_multiline, "conditionalFormatConfigs", "conditionalFormatConfigs", "conditional_format", "cf/")
    \o cf_add_multiline_loop
    \o MultiLoop(dv_multiline, "dataValidationConfigs", "dataValidationConfigs", "data_validation", "dv/")
    \o << RegexStmt("dataValidationConfigs", "set_list_validation", "dataValidationConfigs",
                    "data_validation", repl_list, "set_list_validation", "always"),
          RegexStmt("dataValidationConfigs", "set_date_validation", "dataValidationConfigs",
                    "data_validation", repl_date, "set_date_validation", "always"),
          RegexStmt("dataValidationConfigs", "set_text_length_validation", "dataValidationConfigs",
                    "data_validation", repl_text, "set_text_length_validation", "always"),
          RegexStmt("dataValidationConfigs", "set_custom_validation", "dataValidationConfigs",
                    "data_validation", repl_custom, "set_custom_validation", "always"),
          RegexStmt("dataValidationConfigs", "set_number_validation", "dataValidationConfigs",
                    "data_validation", repl_num, "set_number_validation", "always") >>
    \o MultiLoop(pivot_multiline, "pivotTableConfigs", "pivotTableConfigs", "pivot", "pivot/")
    \o << RegexStmt("pivotTableConfigs", "apply_pivot_label_filter", "pivotTableConfigs",
                    "pivot", repl_plf, "apply_pivot_label_filter", "always"),
          ThenPrint(<< RegexStmt("pivotTableConfigs", "clear_pivot_field_filters",
                                 "pivotTableConfigs", "pivot", repl_cpff,
                                 "clear_pivot_field_filters", "always") >>,
                    "After multi-line tool renames", TRUE)[1],
          FindStmt("find_ctx", sort_action_text, "Sort context 1") >>

(***************************************************************************)
(* Execution of one statement on the text buffer.                          *)
(***************************************************************************)
exec_stmt(text, s) ==
    CASE s.kind = "tool" ->
            LET r == replace_tool_call(text, s.oc, s.on, s.nc, s.nn, s.na)
            IN  [text |-> r.text, cnt |-> r.cnt, counted |-> TRUE, idx |-> -1]
      [] s.kind = "lit" ->
            LET r == count_and_replace(text, s.old, s.new)
            IN  [text |-> r.text, cnt |-> r.cnt, counted |-> TRUE, idx |-> -1]
      [] s.kind = "sub" ->
            [text |-> str_replace(text, s.old, s.new), cnt |-> -1,
             counted |-> FALSE, idx |-> -1]
      [] s.kind = "cnt" ->
            [text |-> text, cnt |-> str_count(text, s.old), counted |-> TRUE, idx |-> -1]
      [] s.kind = "multi" ->
            LET r == replace_multiline_tool(text, s.oc, s.on, s.nc, s.nn, s.na)
            IN  [text |-> r.text, cnt |-> r.cnt, counted |-> TRUE, idx |-> -1]
      [] s.kind = "regex" ->
            LET r == pattern_subn(text, s.oc, s.on, s.nc, s.nn, s.brace)
            IN  [text |-> r.text, cnt |-> r.cnt, counted |-> TRUE, idx |-> -1]
      [] OTHER ->
            [text |-> text, cnt |-> -1, counted |-> FALSE, idx |-> str_find(text, s.old)]

\* every count printed under if cnt:, the single rules included
stmt_prints_if_cnt(s, r) ==
    LET own ==
            IF s.kind = "find_warn"
            THEN IF r.idx > 0
                 THEN << <<"WARNING: sort_pivot_field_labels still present at", r.idx>> >>
                 ELSE << <<"sort_pivot_field_labels replaced OK", -1>> >>
            ELSE IF s.kind = "find_idx" THEN << <<s.tag, r.idx>> >>
            ELSE IF s.kind = "find_ctx" THEN << <<s.tag, -1>> >>
            ELSE IF s.pr \in {"always", "ifcnt"} /\ r.cnt # 0
                 THEN << <<s.tag, r.cnt>> >>
                 ELSE <<>>
        post == [i \in 1..Len(s.post) |->
                    <<s.post[i].tag, IF s.post[i].lines THEN line_count(r.text) ELSE -1>>]
    IN  own \o post

\* the lines the statement prints, as <<tag, number>> (-1: the line has no number)
stmt_prints(s, r) ==
    LET own ==
            IF s.kind = "find_warn"
            THEN IF r.idx > 0
                 THEN << <<"WARNING: sort_pivot_field_labels still present at", r.idx>> >>
                 ELSE << <<"sort_pivot_field_labels replaced OK", -1>> >>
            ELSE IF s.kind = "find_idx" THEN << <<s.tag, r.idx>> >>
            ELSE IF s.kind = "find_ctx" THEN << <<s.tag, -1>> >>
            ELSE IF s.pr = "always" \/ (s.pr = "ifcnt" /\ r.cnt # 0)
                 THEN << <<s.tag, r.cnt>> >>
                 ELSE <<>>
        post == [i \in 1..Len(s.post) |->
                    <<s.post[i].tag, IF s.post[i].lines THEN line_count(r.text) ELSE -1>>]
    IN  own \o post

(***************************************************************************)
(* The files the scripts are run on: one of a few layouts of the head of   *)
(* the file followed by at most MaxSnips tool invocations.                 *)
(***************************************************************************)
FileHead == Ln(0, <<"//", "e2e">>) \o NL
LegacyCode == <<"legacy", "(", ");">>
DocTail == Ln(1, <<"x">>) \o NL

\* the layout STEP 1 & 2 expects
ExpectedLayout ==
    FileHead \o legacy_marker \o NL \o LegacyCode \o calltool_end_marker \o DocTail

Layouts == {
    ExpectedLayout,
    \* no legacy marker
    FileHead \o LegacyCode \o calltool_end_marker \o DocTail,
    \* no end marker
    FileHead \o legacy_marker \o NL \o LegacyCode \o NL,
    \* the end marker before the legacy marker
    FileHead \o <<"{">> \o calltool_end_marker \o DocTail \o legacy_marker \o NL,
    \* a second legacy marker after the end marker
    FileHead \o legacy_marker \o NL \o LegacyCode \o calltool_end_marker \o DocTail
        \o legacy_marker \o NL }

SnipSingle ==
    <<"(">> \o tool_call_old_p("rangeConfigs", "sort_range") \o <<"});">> \o NL
\* the line of the brace is indented by two blanks, a vertical tab and a no-break
\* space: \s+ matches any run of whitespace characters
SnipMulti ==
    <<"(">> \o NL \o Ln(4, <<"rangeConfigs", ",">>) \o NL \o Ln(4, <<"'sort_range'", ",">>) \o NL
        \o <<" ", " ", "(U+000B)", "(U+00A0)", "{">> \o <<"});">> \o NL
SnipManual ==
    <<"(">> \o tool_call_old_p("pivotTableConfigs", "apply_pivot_manual_filter") \o NL
        \o Ln(6, <<"pivotTableName:", "PT_NAME", ",">>) \o NL
        \o Ln(6, <<"fieldName:", "'Region'", ",">>) \o NL
        \o Ln(6, <<"selectedItems:", "['North']", ",">>) \o NL
SnipListValidation ==
    <<"(">> \o tool_call_old_p("dataValidationConfigs", "set_list_validation") \o NL \o old_dv2
SnipChartAxis ==
    <<"(">> \o tool_call_old_p("chartConfigs", "set_chart_axis_title") \o <<"});">> \o NL
SnipSortLabels ==
    <<"(">> \o NL \o Ln(4, <<"pivotTableConfigs", ",">>) \o NL
        \o Ln(4, <<"'sort_pivot_field_labels'", ",">>) \o NL
        \o Ln(4, <<"{", "pivotTableName:", "PT_NAME", ",", "fieldName:", "'Region'", ",", "sortBy:", "'Descending'", ",", "sheetName:", "PIVOT_DST", "}", ",">>) \o NL
SnipMultiGet ==
    <<"(">> \o NL \o Ln(4, <<"rangeConfigs", ",">>) \o NL \o Ln(4, <<"'get_range_values'", ",">>) \o NL
        \o Ln(4, <<"{">>) \o <<"});">> \o NL
\* three-line invocations that the regex rules of pass 2 rewrite with a
\* fitTarget, a type and a filterType field; the first moves to another configs
\* identifier
SnipMultiTyped ==
    <<"(">> \o NL \o Ln(4, <<"rangeConfigs", ",">>) \o NL
        \o Ln(4, <<"'auto_fit_columns'", ",">>) \o NL
        \o Ln(4, <<"{", "address:", "'A1:C3'", "}">>) \o <<");">> \o NL
    \o <<"(">> \o NL \o Ln(4, <<"conditionalFormatConfigs", ",">>) \o NL
        \o Ln(6, <<"'add_color_scale'", ",">>) \o NL
        \o Ln(2, <<"{", "address:", "'A1:C3'", "}">>) \o <<");">> \o NL
    \o <<"(">> \o NL \o Ln(4, <<"pivotTableConfigs", ",">>) \o NL
        \o Ln(4, <<"'apply_pivot_label_filter'", ",">>) \o NL
        \o Ln(4, <<"{", "pivotTableName:", "PT_NAME", "}">>) \o <<");">> \o NL

Snippets ==
    <<SnipSingle, SnipMulti, SnipManual, SnipListValidation, SnipChartAxis, SnipSortLabels,
      SnipMultiGet, SnipMultiTyped>>

\* n invocations of one kind
RECURSIVE Copies(_, _)
Copies(snip, n) == IF n = 0 THEN <<>> ELSE snip \o Copies(snip, n - 1)

\* at most n invocations, all of one kind
OneKind(n) == {Copies(Snippets[k], c) : k \in 1..Len(Snippets), c \in 0..n}

\* two invocations of different kinds, in the order of Snippets: no rule's
\* pattern spans two invocations, so their order decides nothing
TwoKinds ==
    UNION {{Snippets[j] \o Snippets[k] : j \in 1..(k - 1)} : k \in 1..Len(Snippets)}

\* the files on disk.  With "\n" line ends: a layout followed by at most
\* MaxSnips invocations of one kind, and the expected layout followed by two
\* invocations of different kinds.  With "\r\n" (Windows) and with "\r" (old
\* Mac OS) line ends: a layout followed by at most one invocation
Texts ==
    {h \o b : h \in Layouts, b \in OneKind(MaxSnips)}
        \cup {ExpectedLayout \o b : b \in TwoKinds}
        \cup {write_text(h \o b, sep) : h \in Layouts, b \in OneKind(1),
                                        sep \in {CRLF, <<"\r">>}}

(***************************************************************************)
(* transform_e2e.py.                                                       *)
(***************************************************************************)
\* lines 7-10: read the file in text mode, print the line count
P1_Start ==
    /\ status # "running"
    /\ runs < MaxRuns
    /\ script' = "pass1"
    /\ status' = "running"
    /\ runs' = runs + 1
    /\ content' = read_text(file)
    /\ cnt' = -1
    /\ out' = << <<"Original", line_count(content')>> >>
    /\ pc' = 0
    /\ UNCHANGED <<file, writes, prevIn, linesep>>
    /\ UNCHANGED thumb_vars

\* lines 14-18: one of the two assertions fails, the script ends with AssertionError
P1_AssertFail ==
    /\ script = "pass1" /\ status = "running" /\ pc = 0
    /\ ~(legacy_start(content) > 0 /\ old_calltool_end(content) > 0)
    /\ status' = "aborted"
    /\ UNCHANGED <<file, content, cnt, out, script, pc, runs, writes, prevIn, linesep>>
    /\ UNCHANGED thumb_vars

\* STEP 1 & 2 without the two assert statements
P1_Step12_Unchecked ==
    /\ script = "pass1" /\ status = "running" /\ pc = 0
    /\ content' = step12_splice(content)
    /\ out' = Append(out, <<"After step 1&2", line_count(content')>>)
    /\ pc' = 1
    /\ UNCHANGED <<file, cnt, script, status, runs, writes, prevIn, linesep>>
    /\ UNCHANGED thumb_vars

\* lines 14-33: both markers found, the legacy block is replaced by new_calltool
P1_Step12 ==
    /\ script = "pass1" /\ status = "running" /\ pc = 0
    /\ legacy_start(content) > 0
    /\ old_calltool_end(content) > 0
    /\ content' = step12_splice(content)
    /\ out' = Append(out, <<"After step 1&2", line_count(content')>>)
    /\ pc' = 1
    /\ UNCHANGED <<file, cnt, script, status, runs, writes, prevIn, linesep>>
    /\ UNCHANGED thumb_vars

\* every rule applied to the text as read from the file
P1_Stmt_Isolated ==
    /\ script = "pass1" /\ status = "running"
    /\ pc \in 1..Len(Pass1Prog)
    /\ \E r \in {exec_stmt(read_text(file), Pass1Prog[pc])} :
           /\ content' = r.text
           /\ cnt' = IF r.counted THEN r.cnt ELSE cnt
           /\ out' = out \o stmt_prints(Pass1Prog[pc], r)
    /\ pc' = pc + 1
    /\ UNCHANGED <<file, script, status, runs, writes, prevIn, linesep>>
    /\ UNCHANGED thumb_vars

\* lines 45-566: the next rewrite rule and its print
P1_Stmt ==
    /\ script = "pass1" /\ status = "running"
    /\ pc \in 1..Len(Pass1Prog)
    /\ \E r \in {exec_stmt(content, Pass1Prog[pc])} :
           /\ content' = r.text
           /\ cnt' = IF r.counted THEN r.cnt ELSE cnt
           /\ out' = out \o stmt_prints(Pass1Prog[pc], r)
    /\ pc' = pc + 1
    /\ UNCHANGED <<file, script, status, runs, writes, prevIn, linesep>>
    /\ UNCHANGED thumb_vars

\* lines 568-571: the only write of the file, in text mode
P1_Write ==
    /\ script = "pass1" /\ status = "running"
    /\ pc = Len(Pass1Prog) + 1
    /\ file' = write_text(content, linesep)
    /\ out' = Append(out, <<"File written (intermediate state)", -1>>)
    /\ status' = "done"
    /\ writes' = Append(writes, "pass1")
    /\ prevIn' = file
    /\ UNCHANGED <<content, cnt, script, pc, runs, linesep>>
    /\ UNCHANGED thumb_vars

(***************************************************************************)
(* transform_e2e_pass2.py.                                                 *)
(***************************************************************************)
\* lines 10-13
P2_Start ==
    /\ status # "running"
    /\ runs < MaxRuns
    /\ script' = "pass2"
    /\ status' = "running"
    /\ runs' = runs + 1
    /\ content' = read_text(file)
    /\ cnt' = -1
    /\ out' = << <<"Input", line_count(content')>> >>
    /\ pc' = 1
    /\ UNCHANGED <<file, writes, prevIn, linesep>>
    /\ UNCHANGED thumb_vars

\* lines 37-274
P2_Stmt ==
    /\ script = "pass2" /\ status = "running"
    /\ pc \in 1..Len(Pass2Prog)
    /\ \E r \in {exec_stmt(content, Pass2Prog[pc])} :
           /\ content' = r.text
           /\ cnt' = IF r.counted THEN r.cnt ELSE cnt
           /\ out' = out \o stmt_prints(Pass2Prog[pc], r)
    /\ pc' = pc + 1
    /\ UNCHANGED <<file, script, status, runs, writes, prevIn, linesep>>
    /\ UNCHANGED thumb_vars

\* lines 276-279
P2_Write ==
    /\ script = "pass2" /\ status = "running"
    /\ pc = Len(Pass2Prog) + 1
    /\ file' = write_text(content, linesep)
    /\ out' = Append(out, <<"File written (pass 2)", -1>>)
    /\ status' = "done"
    /\ writes' = Append(writes, "pass2")
    /\ prevIn' = file
    /\ UNCHANGED <<content, cnt, script, pc, runs, linesep>>
    /\ UNCHANGED thumb_vars

(***************************************************************************)
(* tests-pptx/thumbnails.py.                                               *)
(***************************************************************************)
THUMB_W == 480
THUMB_H == 270
COLS == 3
PAD == 16
FONT_SIZE == 18

\* rows computed by floor division
make_grid_size_floor(n, cols) ==
    LET rows == n \div cols
        label_h == FONT_SIZE + 8
        cell_w == THUMB_W + PAD
        cell_h == THUMB_H + label_h + PAD
    IN  [rows |-> rows, cols |-> cols,
         grid_w |-> cols * cell_w + PAD,
         grid_h |-> rows * cell_h + PAD]

\* make_grid, lines 45-52: the size of the image passed to Image.new
make_grid_size(n, cols) ==
    LET rows == (n + cols - 1) \div cols
        label_h == FONT_SIZE + 8
        cell_w == THUMB_W + PAD
        cell_h == THUMB_H + label_h + PAD
    IN  [rows |-> rows, cols |-> cols,
         grid_w |-> cols * cell_w + PAD,
         grid_h |-> rows * cell_h + PAD]

NoGrid == [rows |-> 0, cols |-> 0, grid_w |-> 0, grid_h |-> 0]

\* entries numbered from 0, as the loop variable is
slide_entry_zero_based(i) ==
    <<"slide" \o ToString(i) \o ".png", "Slide " \o ToString(i)>>

\* render_slides, lines 32 and 38: the entry appended for slide index i
slide_entry(i) ==
    <<"slide" \o ToString(i + 1) \o ".png", "Slide " \o ToString(i + 1)>>

\* the message without the sys.exit(1) after it
T_NotFound_NoExit ==
    /\ t_pc = "main"
    /\ ~t_exists
    /\ t_stderr' = Append(t_stderr, "Not found")
    /\ t_tmp' = "exists"
    /\ t_slides' = <<>>
    /\ t_i' = 0
    /\ t_pc' = "render"
    /\ UNCHANGED <<t_exists, t_output, t_has_name, t_n, t_cols, t_grid, t_saved, t_stdout, t_exit>>
    /\ UNCHANGED e2e_vars

\* main, lines 94-97: the input path does not exist
T_NotFound ==
    /\ t_pc = "main"
    /\ ~t_exists
    /\ t_stderr' = Append(t_stderr, "Not found")
    /\ t_exit' = 1
    /\ t_pc' = "exit"
    /\ UNCHANGED <<t_exists, t_output, t_has_name, t_n, t_cols, t_i, t_slides, t_tmp, t_grid, t_saved, t_stdout>>
    /\ UNCHANGED e2e_vars

\* main, line 99: without -o the output path is pptx.with_name(...), which raises
\* ValueError for a path with an empty name; main ends with a traceback on
\* stderr and exit status 1, before the temporary directory is created
T_NoName ==
    /\ t_pc = "main"
    /\ t_exists
    /\ ~t_output /\ ~t_has_name
    /\ t_stderr' = Append(t_stderr, "ValueError")
    /\ t_exit' = 1
    /\ t_pc' = "exit"
    /\ UNCHANGED <<t_exists, t_output, t_has_name, t_n, t_cols, t_i, t_slides, t_tmp, t_grid, t_saved, t_stdout>>
    /\ UNCHANGED e2e_vars

\* main, lines 99-103, and render_slides, lines 28-30
T_EnterTmp ==
    /\ t_pc = "main"
    /\ t_exists
    /\ t_output \/ t_has_name
    /\ t_tmp' = "exists"
    /\ t_slides' = <<>>
    /\ t_i' = 0
    /\ t_pc' = "render"
    /\ UNCHANGED <<t_exists, t_output, t_has_name, t_n, t_cols, t_grid, t_saved, t_stderr, t_stdout, t_exit>>
    /\ UNCHANGED e2e_vars

\* render_slides, lines 31-38: one iteration of the loop
T_RenderSlide ==
    /\ t_pc = "render"
    /\ t_i < t_n
    /\ t_slides' = Append(t_slides, slide_entry(t_i))
    /\ t_i' = t_i + 1
    /\ UNCHANGED <<t_pc, t_exists, t_output, t_has_name, t_n, t_cols, t_tmp, t_grid, t_saved, t_stderr, t_stdout, t_exit>>
    /\ UNCHANGED e2e_vars

\* render_slides, lines 39-40, and main, lines 104-106: no slides
T_NoSlides ==
    /\ t_pc = "render"
    /\ t_i = t_n
    /\ t_slides = <<>>
    /\ t_stderr' = Append(t_stderr, "No slides found")
    /\ t_exit' = 1
    /\ t_tmp' = "removed"
    /\ t_pc' = "exit"
    /\ UNCHANGED <<t_exists, t_output, t_has_name, t_n, t_cols, t_i, t_slides, t_grid, t_saved, t_stdout>>
    /\ UNCHANGED e2e_vars

\* make_grid called without the if not slides: check before it
T_MakeGrid_Unguarded ==
    /\ t_pc = "render"
    /\ t_i = t_n
    /\ t_cols # 0
    /\ t_grid' = make_grid_size(Len(t_slides), t_cols)
    /\ t_saved' = TRUE
    /\ t_stdout' = Append(t_stdout, <<"slides ->", Len(t_slides)>>)
    /\ t_exit' = 0
    /\ t_tmp' = "removed"
    /\ t_pc' = "exit"
    /\ UNCHANGED <<t_exists, t_output, t_has_name, t_n, t_cols, t_i, t_slides, t_stderr>>
    /\ UNCHANGED e2e_vars

\* main, lines 107-108, and make_grid
T_MakeGrid ==
    /\ t_pc = "render"
    /\ t_i = t_n
    /\ t_slides # <<>>
    /\ t_cols # 0
    /\ t_grid' = make_grid_size(Len(t_slides), t_cols)
    /\ t_saved' = TRUE
    /\ t_stdout' = Append(t_stdout, <<"slides ->", Len(t_slides)>>)
    /\ t_exit' = 0
    /\ t_tmp' = "removed"
    /\ t_pc' = "exit"
    /\ UNCHANGED <<t_exists, t_output, t_has_name, t_n, t_cols, t_i, t_slides, t_stderr>>
    /\ UNCHANGED e2e_vars

\* make_grid, line 45 with cols = 0: ZeroDivisionError ends the process
T_GridCrash ==
    /\ t_pc = "render"
    /\ t_i = t_n
    /\ t_slides # <<>>
    /\ t_cols = 0
    /\ t_stderr' = Append(t_stderr, "ZeroDivisionError")
    /\ t_exit' = 1
    /\ t_tmp' = "removed"
    /\ t_pc' = "exit"
    /\ UNCHANGED <<t_exists, t_output, t_has_name, t_n, t_cols, t_i, t_slides, t_grid, t_saved, t_stdout>>
    /\ UNCHANGED e2e_vars

(***************************************************************************)
(* Specifications.                                                         *)
(***************************************************************************)
ThumbOff ==
    /\ t_pc = "off" /\ t_exists = FALSE /\ t_output = FALSE /\ t_has_name = TRUE
    /\ t_n = 0 /\ t_cols = COLS /\ t_i = 0
    /\ t_slides = <<>> /\ t_tmp = "none" /\ t_grid = NoGrid /\ t_saved = FALSE
    /\ t_stderr = <<>> /\ t_stdout = <<>> /\ t_exit = -1

E2eOff ==
    /\ file = <<>> /\ content = <<>> /\ cnt = -1 /\ out = <<>> /\ script = "none"
    /\ pc = 0 /\ status = "off" /\ runs = 0 /\ writes = <<>> /\ prevIn = <<>>
    /\ linesep = NL

Init ==
    /\ file \in Texts
    /\ content = <<>>
    /\ cnt = -1
    /\ out = <<>>
    /\ script = "none"
    /\ pc = 0
    /\ status = "idle"
    /\ runs = 0
    /\ writes = <<>>
    /\ prevIn = <<>>
    /\ linesep \in {NL, CRLF}
    /\ ThumbOff

Next ==
    \/ P1_Start
    \/ P1_AssertFail
    \/ P1_Step12
    \/ P1_Stmt
    \/ P1_Write
    \/ P2_Start
    \/ P2_Stmt
    \/ P2_Write

Spec == Init /\ [][Next]_vars

InitThumb ==
    /\ E2eOff
    /\ t_pc = "main"
    /\ t_exists \in BOOLEAN
    /\ t_output \in BOOLEAN
    /\ t_has_name \in BOOLEAN
    /\ t_exists = FALSE => t_has_name
    /\ t_n \in 0..MaxSlides
    /\ t_exists = FALSE => t_n = 0
    /\ t_cols \in 0..MaxCols
    /\ t_i = 0
    /\ t_slides = <<>>
    /\ t_tmp = "none"
    /\ t_grid = NoGrid
    /\ t_saved = FALSE
    /\ t_stderr = <<>>
    /\ t_stdout = <<>>
    /\ t_exit = -1

NextThumb ==
    \/ T_NotFound
    \/ T_NoName
    \/ T_EnterTmp
    \/ T_RenderSlide
    \/ T_NoSlides
    \/ T_MakeGrid
    \/ T_GridCrash

SpecThumb == InitThumb /\ [][NextThumb]_vars

(***************************************************************************)
(* Properties.  Helpers common to several of them.                         *)
(***************************************************************************)
Last(s) == s[Len(s)]

\* the statement of prog that prints under tag
StmtIndex(prog, tag) == CHOOSE i \in 1..Len(prog) : prog[i].tag = tag

ManualPc == StmtIndex(Pass1Prog, "pivot manual filter PT_NAME")
Dv2Pc == StmtIndex(Pass1Prog, "set_list source->listValues (2)")

\* the running script's statements
Prog == IF script = "pass2" THEN Pass2Prog ELSE Pass1Prog

\* this step executes statement Prog[pc]
RuleStep ==
    /\ script \in {"pass1", "pass2"} /\ status = "running"
    /\ pc \in 1..Len(Prog)
    /\ pc' = pc + 1

\* the kinds of statement that are rewrite rules (the others only look)
RuleKinds == {"tool", "lit", "sub", "multi", "regex"}

\* the pattern of rule s does not occur in text
NoMatch(text, s) ==
    CASE s.kind = "tool" -> occurrences(text, tool_call_old_p(s.oc, s.on)) = {}
      [] s.kind \in {"lit", "sub", "cnt"} -> occurrences(text, s.old) = {}
      [] s.kind \in {"multi", "regex"} -> multiline_matches(text, s.oc, s.on) = {}
      [] OTHER -> FALSE

\* the current run of script name read the file that a run of the same script had
\* written: a run that has not written yet, after a write by name, or a run that
\* has written, after the write before it was by name too
SecondRunOf(name) ==
    /\ script = name
    /\ \/ /\ status \in {"running", "aborted"}
          /\ writes # <<>> /\ Last(writes) = name
       \/ /\ status = "done"
          /\ Len(writes) >= 2
          /\ writes[Len(writes)] = name /\ writes[Len(writes) - 1] = name

\* an invocation of apply_pivot_manual_filter as the file holds it before pass 1
unrenamed_manual ==
    tool_call_old_p("pivotTableConfigs", "apply_pivot_manual_filter") \o NL
        \o Ln(6, <<"pivotTableName:", "PT_NAME", ",">>) \o NL
        \o Ln(6, <<"fieldName:", "'Region'", ",">>) \o NL
        \o Ln(6, <<"selectedItems:", "['North']", ",">>)

(***************************************************************************)
(* C1  Rules act one after the other on the one buffer content: a rule     *)
(* matches, and counts, in the text the earlier rules produced.  Pass 1:   *)
(* the count of the rule that adds filterType: 'manual' is the number of   *)
(* apply_pivot_manual_filter invocations the pivot_map loop renamed        *)
(* before it (plus the blocks the file already held in renamed form), not  *)
(* the number of matches of its pattern in the file as read.  Pass 2:      *)
(* when the last rule has run, no rule's pattern is left in content, so    *)
(* content holds the effect of every rule.                                 *)
(***************************************************************************)
C1_RulesSeeEarlierRules ==
    /\ (script = "pass1" /\ status = "running" /\ pc = ManualPc + 1) =>
            cnt = str_count(read_text(file), unrenamed_manual)
                    + str_count(read_text(file), old_manual)
    /\ (script = "pass2" /\ status = "running" /\ pc = Len(Pass2Prog) + 1) =>
            \A k \in 1..Len(Pass2Prog) :
                Pass2Prog[k].kind \in RuleKinds => NoMatch(content, Pass2Prog[k])

\* the manual-filter rule has matched text that the file as read did not hold,
\* in a file whose line ends are not "\n"
C1_Witness ==
    /\ script = "pass1" /\ status = "running" /\ pc = ManualPc + 1
    /\ cnt >= 1
    /\ read_text(file) # file
    /\ str_count(read_text(file), old_manual) = 0

(***************************************************************************)
(* C2  (as claimed) A rule whose pattern does not occur in content leaves  *)
(* content unchanged and prints its count, 0.                              *)
(***************************************************************************)
C2_ZeroCountAlwaysPrinted ==
    [][(RuleStep /\ Prog[pc].kind \in RuleKinds /\ NoMatch(content, Prog[pc])) =>
            /\ content' = content
            /\ Len(out') > Len(out)
            /\ out'[Len(out) + 1] = <<Prog[pc].tag, 0>>]_vars

(***************************************************************************)
(* C2  (amended) A rule whose pattern does not occur in content leaves     *)
(* content unchanged.  Its count, 0, is printed exactly when the rule's    *)
(* print is unconditional; a rule of a table-driven loop (if cnt: print)   *)
(* and a bare content.replace print no count line.                         *)
(***************************************************************************)
C2_ZeroMatchIsNoOp ==
    [][(RuleStep /\ Prog[pc].kind \in RuleKinds /\ NoMatch(content, Prog[pc])) =>
            /\ content' = content
            /\ IF Prog[pc].pr = "always"
               THEN /\ Len(out') = Len(out) + 1 + Len(Prog[pc].post)
                    /\ out'[Len(out) + 1] = <<Prog[pc].tag, 0>>
               ELSE /\ Len(out') = Len(out) + Len(Prog[pc].post)
                    /\ \A i \in (Len(out) + 1)..Len(out') : out'[i][1] # Prog[pc].tag]_vars

\* a single rule has just printed a zero count, and a loop rule before it
\* matched nothing and printed nothing
C2_Witness ==
    /\ script = "pass1" /\ status = "running" /\ pc = ManualPc + 1
    /\ cnt = 0
    /\ out[Len(out)] = <<"pivot manual filter PT_NAME", 0>>
    /\ \A i \in 1..Len(out) : out[i][1] # "range/get_range_values"

(***************************************************************************)
(* C3  (as claimed) A second run of transform_e2e.py on the file it wrote  *)
(* completes, every count it computes is 0, and the file it writes equals  *)
(* the file it read.                                                       *)
(***************************************************************************)
C3_SecondRunCompletes ==
    SecondRunOf("pass1") =>
        /\ status # "aborted"
        /\ cnt \in {-1, 0}
        /\ status = "running" => content = read_text(file)
        /\ status = "done" => file = prevIn

\* the legacy marker occurs once in text, before the end marker
LegacyOnceBeforeEnd(text) ==
    /\ Cardinality(occurrences(text, legacy_marker)) = 1
    /\ legacy_start(text) < old_calltool_end(text)

(***************************************************************************)
(* C3  (amended) When the text first read held the legacy marker once,     *)
(* before the end marker, STEP 1 & 2 removes it, and a second run of       *)
(* transform_e2e.py on the file it wrote stops at the first assertion: no  *)
(* rule is applied, no count is computed, nothing is printed after the     *)
(* line count, and the file stays as the first run wrote it.               *)
(***************************************************************************)
C3_SecondRunAborts ==
    (SecondRunOf("pass1") /\ status # "done" /\ LegacyOnceBeforeEnd(read_text(prevIn))) =>
        /\ pc = 0
        /\ cnt = -1
        /\ content = read_text(file)
        /\ legacy_start(content) = -1
        /\ out = << <<"Original", line_count(content)>> >>
        /\ status = "running" => ~ENABLED P1_Write

\* the second run has stopped, on a file in which the first run renamed a tool
\* and replaced the "\r" line ends it had read by "\r\n"
C3_Witness ==
    /\ occurrences(prevIn, <<"\r">>) # {} /\ occurrences(prevIn, <<"\n">>) = {}
    /\ linesep = CRLF
    /\ SecondRunOf("pass1") /\ LegacyOnceBeforeEnd(read_text(prevIn))
    /\ status = "aborted"
    /\ read_text(file) # step12_splice(read_text(prevIn))

\* the tags under which the rules of pass 2 print their counts
Pass2RuleTags == {Pass2Prog[k].tag : k \in {j \in 1..Len(Pass2Prog) : Pass2Prog[j].kind \in RuleKinds}}

(***************************************************************************)
(* C4  A second run of transform_e2e_pass2.py on the file it wrote is a    *)
(* no-op: every count it computes is 0, every count line it prints shows   *)
(* 0, content stays equal to the text of the file, and the file it writes  *)
(* equals the file it read, line ends included.                            *)
(***************************************************************************)
C4_SecondPass2RunIsNoOp ==
    SecondRunOf("pass2") =>
        /\ status # "aborted"
        /\ cnt \in {-1, 0}
        /\ \A i \in 1..Len(out) : out[i][1] \in Pass2RuleTags => out[i][2] = 0
        /\ status = "running" => content = read_text(file)
        /\ status = "done" => file = prevIn

\* the second run has written, on a platform that writes "\r\n", and the file
\* holds an invocation that the first run rewrote in its three-line form
C4_Witness ==
    /\ linesep = CRLF /\ occurrences(file, CRLF) # {}
    /\ SecondRunOf("pass2") /\ status = "done"
    /\ multiline_matches(read_text(file), "rangeConfigs", "range") # {}
    /\ str_count(read_text(file), Ln(0, <<"{", "action:", "'sort'", ",">>)) >= 1

\* one of the two markers of STEP 1 & 2 does not occur in text
MarkerMissing(text) ==
    \/ occurrences(text, legacy_marker) = {}
    \/ occurrences(text, calltool_end_marker) = {}

(***************************************************************************)
(* C5  When the legacy marker or the end marker is missing from the text   *)
(* read from the file, transform_e2e.py never gets past its assertions:    *)
(* the only step the run can take is the failing assertion, no rule is     *)
(* applied, no count is computed, content is the text as read, and the run *)
(* never writes (a run that has written had read both markers).            *)
(***************************************************************************)
C5_MissingMarkerAborts ==
    script = "pass1" =>
        /\ (status \in {"running", "aborted"} /\ MarkerMissing(read_text(file))) =>
                /\ pc = 0
                /\ cnt = -1
                /\ content = read_text(file)
                /\ out = << <<"Original", line_count(content)>> >>
                /\ status = "running" =>
                        (ENABLED P1_AssertFail /\ ~ENABLED P1_Step12 /\ ~ENABLED P1_Stmt)
        /\ status = "done" => ~MarkerMissing(read_text(prevIn))

\* the first run has stopped at an assertion, on a file with "\r\n" line ends
\* that holds an invocation the rules would have renamed
C5_Witness ==
    /\ occurrences(file, CRLF) # {}
    /\ script = "pass1" /\ status = "aborted" /\ runs = 1
    /\ MarkerMissing(read_text(file))
    /\ occurrences(read_text(file), tool_call_old_p("rangeConfigs", "sort_range")) # {}

\* the replacement of a literal rule has as many newlines as its pattern
KeepsNewlines(s) ==
    CASE s.kind = "tool" ->
            line_count(tool_call_new_p(s.nc, s.nn, s.na))
                = line_count(tool_call_old_p(s.oc, s.on))
      [] s.kind \in {"lit", "sub"} -> line_count(s.new) = line_count(s.old)
      [] s.kind = "regex" -> line_count(s.brace) = 0
      [] OTHER -> TRUE

(***************************************************************************)
(* C6  After STEP 1 & 2 of pass 1, and in the whole of pass 2, a statement *)
(* changes the number of newlines of content only if it is the second      *)
(* set_list_validation rename (old_dv2, the inCellDropDown line), which    *)
(* takes away one line per match; every other literal rule replaces its    *)
(* pattern by a text with the same number of newlines.                     *)
(***************************************************************************)
C6_LineCountStable ==
    [][RuleStep =>
            IF script = "pass1" /\ pc = Dv2Pc
            THEN /\ line_count(Prog[pc].new) = line_count(Prog[pc].old) - 1
                 /\ line_count(content') = line_count(content) - str_count(content, old_dv2)
            ELSE /\ KeepsNewlines(Prog[pc])
                 /\ line_count(content') = line_count(content)]_vars

\* the old_dv2 rule has matched
C6_Witness ==
    /\ script = "pass1" /\ status = "running" /\ pc = Dv2Pc + 1
    /\ cnt >= 1
    /\ str_count(content, new_dv2) >= 1

(***************************************************************************)
(* C7  thumbnails.py: when the input path does not exist, main prints to   *)
(* stderr and exits with status 1; no temporary directory is created, no   *)
(* slide is rendered, make_grid is not called and nothing is saved.        *)
(***************************************************************************)
C7_MissingInputExits ==
    (t_pc # "off" /\ ~t_exists) =>
        /\ t_pc \in {"main", "exit"}
        /\ t_tmp = "none"
        /\ t_i = 0 /\ t_slides = <<>>
        /\ t_grid = NoGrid /\ ~t_saved
        /\ t_stdout = <<>>
        /\ t_pc = "exit" => (t_stderr = <<"Not found">> /\ t_exit = 1)

\* main has ended on a path that does not exist
C7_Witness == ~t_exists /\ t_pc = "exit" /\ t_exit = 1

(***************************************************************************)
(* C8  thumbnails.py: when the presentation has no slide, make_grid is not *)
(* called and nothing is saved; when render_slides has run on it, main     *)
(* prints "No slides found" to stderr and exits with status 1.             *)
(***************************************************************************)
C8_NoSlidesExits ==
    (t_exists /\ t_n = 0) =>
        /\ t_grid = NoGrid /\ ~t_saved
        /\ t_stdout = <<>>
        /\ (t_pc = "exit" /\ t_tmp # "none") =>
                (t_stderr = <<"No slides found">> /\ t_exit = 1 /\ t_slides = <<>>)

\* main has ended on a presentation without slides
C8_Witness ==
    /\ t_exists /\ t_n = 0 /\ t_pc = "exit" /\ t_tmp = "removed"
    /\ t_stderr = <<"No slides found">>

\* the least r with r * c >= n
CeilDiv(n, c) == CHOOSE r \in 0..n : r * c >= n /\ (r - 1) * c < n

(***************************************************************************)
(* C9  (as claimed) The image make_grid creates for n >= 1 slides in       *)
(* cols >= 1 columns has rows = ceil(n / cols), width                      *)
(* cols * (THUMB_W + PAD) + PAD and height rows * (THUMB_H + PAD) + PAD.   *)
(***************************************************************************)
C9_GridSizeWithoutLabel ==
    t_saved =>
        /\ t_grid.cols = t_cols
        /\ t_grid.rows = CeilDiv(t_n, t_cols)
        /\ t_grid.grid_w = t_cols * (THUMB_W + PAD) + PAD
        /\ t_grid.grid_h = CeilDiv(t_n, t_cols) * (THUMB_H + PAD) + PAD

(***************************************************************************)
(* C9  (amended) The image make_grid creates for n >= 1 slides in          *)
(* cols >= 1 columns has rows = ceil(n / cols) and width                   *)
(* cols * (THUMB_W + PAD) + PAD; a cell is THUMB_H + (FONT_SIZE + 8) + PAD *)
(* high, the label under the thumbnail included, so the height is          *)
(* rows * (THUMB_H + FONT_SIZE + 8 + PAD) + PAD.                           *)
(***************************************************************************)
C9_GridSize ==
    t_saved =>
        /\ t_n >= 1 /\ t_cols >= 1
        /\ t_grid.cols = t_cols
        /\ t_grid.rows = CeilDiv(t_n, t_cols)
        /\ t_grid.grid_w = t_cols * (THUMB_W + PAD) + PAD
        /\ t_grid.grid_h = CeilDiv(t_n, t_cols) * (THUMB_H + FONT_SIZE + 8 + PAD) + PAD

\* a grid whose last row is not full
C9_Witness ==
    /\ t_saved
    /\ t_n % t_cols # 0
    /\ t_grid.rows >= 2

(***************************************************************************)
(* C10  replace_multiline_tool also handles the single-line variant: after *)
(* it has run for old_configs and old_name, content holds no invocation    *)
(* written on one line as old_configs, 'old_name', { and the count covers  *)
(* the one-line invocations as well as the three-line ones.                *)
(***************************************************************************)
C10_SingleLineHandled ==
    [][(RuleStep /\ Prog[pc].kind = "multi") =>
            /\ occurrences(content', tool_call_old_p(Prog[pc].oc, Prog[pc].on)) = {}
            /\ cnt' = Cardinality(multiline_matches(content, Prog[pc].oc, Prog[pc].on))
                        + str_count(content, tool_call_old_p(Prog[pc].oc, Prog[pc].on))]_vars

\* the chart tools that the comment of chart_map (transform_e2e.py 132) marks as dropped
dropped_chart_tools ==
    {"set_chart_axis_title", "set_chart_axis_visibility", "set_chart_series_filtered"}

\* the number of occurrences in text of the one-line invocations of the tools names
RECURSIVE count_invocations(_, _, _)
count_invocations(text, configs, names) ==
    IF names = {} THEN 0
    ELSE LET n == CHOOSE x \in names : TRUE
         IN  str_count(text, tool_call_old_p(configs, n))
                + count_invocations(text, configs, names \ {n})

\* the chart tools that chart_map renames to action and that are not dropped
kept_chart_tools(action) ==
    {chart_map[i][1] : i \in {j \in 1..Len(chart_map) :
        chart_map[j][2] = action /\ chart_map[j][1] \notin dropped_chart_tools}}

(***************************************************************************)
(* C11  The file transform_e2e.py writes holds no invocation that comes    *)
(* from a dropped chart tool: its invocations of chart / configure are     *)
(* those the file read held already and those renamed from the chart       *)
(* tools that are kept.                                                    *)
(***************************************************************************)
C11_DroppedChartToolsRemoved ==
    (script = "pass1" /\ status = "done") =>
        /\ count_invocations(read_text(file), "chartConfigs", dropped_chart_tools) = 0
        /\ str_count(read_text(file), tool_call_new_p("chartConfigs", "chart", "configure"))
                = str_count(read_text(prevIn),
                            tool_call_new_p("chartConfigs", "chart", "configure"))
                    + count_invocations(read_text(prevIn), "chartConfigs",
                                        kept_chart_tools("configure"))

\* the text after the opening brace that a multi-line rule with action na writes
brace_of(na) ==
    IF na # "" THEN Ln(0, <<"{", "action:", Quote(na), ",">>) ELSE <<"{">>

\* the positions in text where the pattern of rule s matches
Matches(text, s) ==
    IF s.kind = "tool" THEN occurrences(text, tool_call_old_p(s.oc, s.on))
    ELSE multiline_matches(text, s.oc, s.on)

\* the number of lexemes of the match of rule s at position m
MatchLen(text, s, m) ==
    IF s.kind = "tool" THEN Len(tool_call_old_p(s.oc, s.on))
    ELSE multiline_match(text, s.oc, s.on, m).len

\* the text rule s puts in the place of its match at position m
Replacement(text, s, m) ==
    IF s.kind = "tool" THEN tool_call_new_p(s.nc, s.nn, s.na)
    ELSE multiline_repl(multiline_match(text, s.oc, s.on, m), s.nc, s.nn, brace_of(s.na))

\* where the replacement of the match at m starts in the text after the rule:
\* every replaced match to its left has moved it by the growth of that match
Moved(text, s, m) ==
    m + Cardinality({k \in Matches(text, s) : k < m})
            * (Len(Replacement(text, s, m)) - MatchLen(text, s, m))

(***************************************************************************)
(* C12  The count of a replace_tool_call or replace_multiline_tool rule is *)
(* the number of substitutions it made.  The occurrences of the pattern in *)
(* content as it stood before the rule do not overlap; cnt is their        *)
(* number; each of them is replaced (the replacement text stands where the *)
(* occurrence stood, moved by the growth of the replacements to its left), *)
(* the text has grown by cnt times the growth of one replacement, and no   *)
(* occurrence of the pattern is left.                                      *)
(***************************************************************************)
C12_CountIsSubstitutions ==
    [][(RuleStep /\ Prog[pc].kind \in {"tool", "multi"}) =>
        LET s == Prog[pc]
            M == Matches(content, s)
        IN  /\ \A m1, m2 \in M : m1 < m2 => m1 + MatchLen(content, s, m1) <= m2
            /\ cnt' = Cardinality(M)
            /\ \A m \in M :
                  StartsAt(content', Replacement(content, s, m), Moved(content, s, m))
            /\ \A m \in M :
                  Len(content') = Len(content)
                      + cnt' * (Len(Replacement(content, s, m)) - MatchLen(content, s, m))
            /\ M = {} => content' = content
            /\ Matches(content', s) = {}]_vars

\* a rule of pass 1 has just replaced two invocations of one tool
C12_Witness ==
    /\ script = "pass1" /\ status = "running"
    /\ pc \in 2..(Len(Pass1Prog) + 1)
    /\ Pass1Prog[pc - 1].kind = "tool"
    /\ cnt = 2
    /\ str_count(content, tool_call_new_p(Pass1Prog[pc - 1].nc, Pass1Prog[pc - 1].nn,
                                          Pass1Prog[pc - 1].na)) >= 2

\* configs, 'name', { : the shape of the one-line pattern of a rename
is_tool_call_pattern(p) ==
    Len(p) = 7 /\ p = Ln(0, <<p[1], ",", p[4], ",", "{">>)

\* the pairs (configs, old_name) that step 3 renames with a literal pattern of its
\* own: auto_fit_columns / auto_fit_rows (transform_e2e.py 89-97), cf_add_map
\* (206-218), the set_..._validation tools (229-254), the two pivot filters
\* (281-291)
LitRenamePairs ==
    {<<"rangeConfigs", "auto_fit_columns">>, <<"rangeConfigs", "auto_fit_rows">>,
     <<"dataValidationConfigs", "set_list_validation">>,
     <<"dataValidationConfigs", "set_date_validation">>,
     <<"dataValidationConfigs", "set_text_length_validation">>,
     <<"dataValidationConfigs", "set_custom_validation">>,
     <<"dataValidationConfigs", "set_number_validation">>,
     <<"pivotTableConfigs", "apply_pivot_label_filter">>,
     <<"pivotTableConfigs", "clear_pivot_field_filters">>}
        \cup {<<"conditionalFormatConfigs", cf_add_map[i][1]>> : i \in 1..Len(cf_add_map)}

\* the statements of pass 1 that rename a tool: the replace_tool_call of every
\* pair of the step-3 tables, and every content.replace whose pattern is
\* configs, 'old_name', { .  The statements of pivot_dropped only count: they
\* rename nothing
RenameRules ==
    {k \in 1..Len(Pass1Prog) :
        \/ Pass1Prog[k].kind = "tool"
        \/ Pass1Prog[k].kind = "lit" /\ is_tool_call_pattern(Pass1Prog[k].old)}

\* the pair (configs, old_name) that each rename rule renames
RenamePairs ==
    [k \in RenameRules |->
        IF Pass1Prog[k].kind = "tool" THEN <<Pass1Prog[k].oc, Pass1Prog[k].on>>
        ELSE CHOOSE p \in LitRenamePairs : tool_call_old_p(p[1], p[2]) = Pass1Prog[k].old]
PairOf(k) == RenamePairs[k]

\* the one-line pattern and the replacement of rename rule k
OldPatterns == [k \in RenameRules |-> tool_call_old_p(PairOf(k)[1], PairOf(k)[2])]
OldOf(k) == OldPatterns[k]
NewOf(k) ==
    IF Pass1Prog[k].kind = "tool"
    THEN tool_call_new_p(Pass1Prog[k].nc, Pass1Prog[k].nn, Pass1Prog[k].na)
    ELSE Pass1Prog[k].new

\* the configs identifiers the patterns of the rename rules start with
OldConfigs == {PairOf(k)[1] : k \in RenameRules}

\* every pair of LitRenamePairs is renamed by a statement of pass 1
LitPairsRenamed == \A p \in LitRenamePairs : \E k \in RenameRules : PairOf(k) = p

\* no replacement text of a rename rule holds the pattern of a rename rule
NoReplacementRecreates ==
    \A s \in RenameRules : \A t \in RenameRules : occurrences(NewOf(s), OldOf(t)) = {}

(***************************************************************************)
(* C13  The file transform_e2e.py writes holds no occurrence of the        *)
(* one-line pattern configs, 'old_name', { of any pair that step 3         *)
(* renames (the pairs of the tables given to replace_tool_call, the pairs  *)
(* of cf_add_map and the pairs renamed by a content.replace of their own), *)
(* every literal rename is a rename of one of these pairs, and no          *)
(* replacement text holds the pattern of any rule, earlier or later.       *)
(***************************************************************************)
C13_NoOldPatternLeft ==
    /\ NoReplacementRecreates
    /\ LitPairsRenamed
    /\ (script = "pass1" /\ status = "done") =>
            \E text \in {read_text(file)} :
                \A i \in 1..Len(text) :
                    text[i] \in OldConfigs =>
                        \A k \in RenameRules : ~StartsAt(text, OldOf(k), i)

\* pass 1 has written, with "\r\n" line ends, a file whose input held one-line
\* invocations of a tool renamed by replace_tool_call and of a tool renamed by
\* a content.replace
C13_Witness ==
    /\ script = "pass1" /\ status = "done"
    /\ linesep = CRLF /\ occurrences(file, CRLF) # {}
    /\ \E k \in RenameRules :
          /\ Pass1Prog[k].kind = "tool"
          /\ occurrences(read_text(prevIn), OldOf(k)) # {}
          /\ occurrences(read_text(file), NewOf(k)) # {}
    /\ \E k \in RenameRules :
          /\ Pass1Prog[k].kind = "lit"
          /\ occurrences(read_text(prevIn), OldOf(k)) # {}
          /\ occurrences(read_text(file), NewOf(k)) # {}

\* STEP 1 & 2 has just succeeded on the text read from the file, read_text(file)
AfterStep12 == script = "pass1" /\ status = "running" /\ pc = 1

\* the blank line and the doc comment that follow the closing brace of callTool
doc_comment_start == SubSeq(calltool_end_marker, 3, Len(calltool_end_marker))

\* now is before \o new_calltool \o after, where before is the text of was in
\* front of its first legacy marker and after is the text of was from the blank
\* line in front of the doc comment on
SplicedFrom(was, now) ==
    LET ls == legacy_start(was)
        oe == old_calltool_end(was)
        at == ls + Len(new_calltool)
    IN  /\ Len(now) = at + (Len(was) - (oe + 2))
        /\ \A i \in 1..ls : now[i] = was[i]
        /\ StartsAt(now, new_calltool, ls + 1)
        /\ \A i \in 1..(Len(was) - (oe + 2)) : now[at + i] = was[oe + 2 + i]
        /\ StartsAt(now, doc_comment_start, at + 1)

\* the block from the legacy marker to the closing brace lies between the text
\* kept in front of it and the text kept after it: no part of was is kept twice
BlockRemovedOnce(was) ==
    legacy_start(was) + Len(legacy_marker) <= old_calltool_end(was)

(***************************************************************************)
(* C14  (as claimed) After STEP 1 & 2 succeeds, for any text in which both *)
(* markers occur, the text is what stood before the first legacy marker,   *)
(* then new_calltool, then what stood from the blank line before the doc   *)
(* comment on; the block between the markers is removed and the text       *)
(* before and after it is kept, each part once.                            *)
(***************************************************************************)
C14_SpliceAnyOrder ==
    AfterStep12 => (SplicedFrom(read_text(file), content) /\ BlockRemovedOnce(read_text(file)))

(***************************************************************************)
(* C14  (amended) The same, for any text in which the first legacy marker  *)
(* occurs before the first end marker.  When the end marker comes first,   *)
(* the text between the end marker and the legacy marker is kept twice and *)
(* the legacy marker stays.                                                *)
(***************************************************************************)
C14_SpliceInOrder ==
    (AfterStep12 /\ legacy_start(read_text(file)) < old_calltool_end(read_text(file))) =>
        (SplicedFrom(read_text(file), content) /\ BlockRemovedOnce(read_text(file)))

\* STEP 1 & 2 has removed a legacy block that stood in front of the end marker,
\* in a file whose line ends are "\r"
C14_Witness ==
    /\ AfterStep12
    /\ occurrences(file, <<"\r">>) # {} /\ occurrences(file, <<"\n">>) = {}
    /\ legacy_start(read_text(file)) < old_calltool_end(read_text(file))
    /\ occurrences(read_text(file), LegacyCode) # {}
    /\ occurrences(content, LegacyCode) = {}
    /\ occurrences(content, new_calltool) # {}

\* transform_e2e_pass2.py has written the file that transform_e2e.py had written
AfterBothPasses ==
    /\ script = "pass2" /\ status = "done"
    /\ Len(writes) >= 2
    /\ writes[Len(writes) - 1] = "pass1" /\ writes[Len(writes)] = "pass2"

(***************************************************************************)
(* C15  After transform_e2e.py and then transform_e2e_pass2.py, the file   *)
(* holds no multi-line invocation configs, newline, 'old_name', newline, { *)
(* of any tool that the step-3 tables of transform_e2e.py rename.          *)
(***************************************************************************)
C15_NoMultilineLeft ==
    AfterBothPasses =>
        \A k \in RenameRules :
            multiline_matches(read_text(file), PairOf(k)[1], PairOf(k)[2]) = {}

\* the number of invocations of sort_pivot_field_labels in text, on one line or
\* on several: the quoted name occurs nowhere else
sort_labels_calls(text) == str_count(text, sort_labels_quoted)

\* action: 'sort' with sortMode: 'labels' next to it
sort_with_mode == Ln(0, <<"action:", "'sort'", ",", "sortMode:", "'labels'", ",">>)

(***************************************************************************)
(* C16  In the file transform_e2e.py writes, every invocation that was a   *)
(* sort_pivot_field_labels call is renamed and carries sortMode: 'labels'  *)
(* next to action: 'sort': the name is gone, and action: 'sort',           *)
(* sortMode: 'labels', occurs at least once per such call of the file      *)
(* read.                                                                   *)
(***************************************************************************)
C16_SortLabelsCarrySortMode ==
    (script = "pass1" /\ status = "done") =>
        /\ sort_labels_calls(read_text(file)) = 0
        /\ str_count(read_text(file), sort_with_mode) >= sort_labels_calls(read_text(prevIn))

\* the brace and the action text that regex rule s of pass 2 writes
BraceOf(s) == IF s.kind = "regex" THEN s.brace ELSE brace_of(s.na)

\* the lexemes rule s adds per match: the action text after the brace
Growth(s) == Len(BraceOf(s)) - 1

\* position i of text lies in the match of rule s that starts at m
InMatch(text, s, m, i) == m <= i /\ i < m + multiline_match(text, s.oc, s.on, m).len

\* where lexeme i of the text before rule s stands after it, M being the matches
\* of the rule: every match that ends before i has grown by the action text
ShiftedBy(text, s, M, i) ==
    i + Growth(s) * Cardinality({m \in M :
                                    m + multiline_match(text, s.oc, s.on, m).len <= i})

(***************************************************************************)
(* C17  A regex substitution of pass 2 changes nothing but the configs     *)
(* identifier and the quoted tool name of a match and adds the action text *)
(* right after the opening brace of the match.  The commas, the newlines   *)
(* and the two runs of whitespace of the match are written back as they    *)
(* were, and every lexeme outside the matches is unchanged.                *)
(***************************************************************************)
C17_RegexFrame ==
    [][(RuleStep /\ script = "pass2" /\ Prog[pc].kind \in {"multi", "regex"}) =>
        \E s \in {Prog[pc]} : \E M \in {multiline_matches(content, s.oc, s.on)} :
            IF M = {} THEN content' = content
            ELSE
            /\ Len(content') = Len(content) + Growth(s) * Cardinality(M)
            /\ \A i \in 1..Len(content) :
                  (\A m \in M : ~InMatch(content, s, m, i)) =>
                      content'[ShiftedBy(content, s, M, i)] = content[i]
            /\ \A m \in M :
                  LET mt   == multiline_match(content, s.oc, s.on, m)
                      name == 3 + Len(mt.indent1)
                      to   == ShiftedBy(content, s, M, m)
                  IN  /\ content'[to] = s.nc
                      /\ content'[to + name] = Quote(s.nn)
                      /\ \A d \in 1..(mt.len - 1) :
                            d # name => content'[to + d] = content[m + d]
                      /\ SubSeq(content', to + mt.len - 1, to + mt.len - 1 + Growth(s))
                            = BraceOf(s)]_vars

\* text holds a three-line invocation of configs / name whose brace is followed
\* by the action text brace, and text follows the action text
Rewritten(text, configs, name, brace) ==
    \E m \in multiline_matches(text, configs, name) :
        \E e \in {m + multiline_match(text, configs, name, m).len - 1} :
            StartsAt(text, brace, e) /\ e + Len(brace) <= Len(text)

\* the regex rule of apply_pivot_label_filter has just written a filterType
\* field, and content holds the invocations that earlier regex rules moved to
\* rangeFormatConfigs with a fitTarget field and rewrote with a type field
C17_Witness ==
    /\ script = "pass2" /\ status = "running"
    /\ pc \in 2..(Len(Pass2Prog) + 1)
    /\ Pass2Prog[pc - 1].kind = "regex"
    /\ Pass2Prog[pc - 1].on = "apply_pivot_label_filter"
    /\ cnt >= 1
    /\ Rewritten(content, "pivotTableConfigs", "pivot", repl_plf)
    /\ multiline_matches(content, "rangeConfigs", "auto_fit_columns") = {}
    /\ Rewritten(content, "rangeFormatConfigs", "range_format", repl_cols)
    /\ multiline_matches(content, "conditionalFormatConfigs", "add_color_scale") = {}
    /\ Rewritten(content, "conditionalFormatConfigs", "conditional_format",
                 Ln(0, <<"{", "action:", "'add'", ",", "type:", "'colorScale'", ",">>))

\* render_slides has returned
Rendered == t_tmp # "none" /\ t_pc \notin {"main", "render"}

(***************************************************************************)
(* C18  render_slides returns one (path, label) entry per slide, in slide  *)
(* order: entry k has path slide{k}.png and label 'Slide k', counting from *)
(* 1, no two entries share a path, and a presentation without slides       *)
(* gives the empty list.  While the loop runs, the list holds the entries  *)
(* of the slides rendered so far.                                          *)
(***************************************************************************)
C18_OneEntryPerSlide ==
    /\ Rendered => Len(t_slides) = t_n
    /\ t_pc = "render" => Len(t_slides) = t_i /\ t_i <= t_n
    /\ \A k \in 1..Len(t_slides) :
          /\ t_slides[k][1] = "slide" \o ToString(k) \o ".png"
          /\ t_slides[k][2] = "Slide " \o ToString(k)
          /\ \A j \in 1..Len(t_slides) : j # k => t_slides[j][1] # t_slides[k][1]
    /\ (Rendered /\ t_n = 0) => t_slides = <<>>

\* render_slides has returned the entries of a presentation of several slides
C18_Witness ==
    /\ Rendered
    /\ t_n = MaxSlides
    /\ Len(t_slides) = MaxSlides
    /\ t_slides[1] = <<"slide1.png", "Slide 1">>
    /\ t_slides[2] = <<"slide2.png", "Slide 2">>

====
